---- MODULE Spec2Model ----
(***************************************************************************)
(* A model of core/error_handler.py (class IntelligentErrorHandler): the   *)
(* error classifier, the recovery catalog, the strategy selector and the   *)
(* facade handle_tool_failure with its incident ledger.                    *)
(*                                                                         *)
(* State: the handler's error_history and max_history_size; the clock that *)
(* datetime.now() reads (now, in seconds); the last public call made on    *)
(* the handler (call: the operation and its arguments, ret: what it        *)
(* returned); the handle_tool_failure calls that run concurrently, each at *)
(* its own position (threads); and appended, the incidents handed to       *)
(* _add_to_history so far in the order of their appends, which the         *)
(* specifications of the ledger record to say what eviction has dropped;   *)
(* logged, what the last call wrote to the module's logger; and            *)
(* classified, the classify_error calls made so far with what each         *)
(* returned; and tables, the handler's four static tables as they are now. *)
(* Strings are Python strings; a message is matched as the code matches    *)
(* it, character by character.                                             *)
(***************************************************************************)
EXTENDS Integers, Sequences, FiniteSets, TLC

VARIABLES error_history, max_history_size, now, call, ret, threads, appended, logged,
          classified, tables

vars == <<error_history, max_history_size, now, call, ret, threads, appended, logged,
          classified, tables>>

\* Python's None.
None == "None"

(***************************************************************************)
(* ErrorType and RecoveryAction (the enum values are the .value strings).  *)
(***************************************************************************)
TIMEOUT == "timeout"
PERMISSION_DENIED == "permission_denied"
NETWORK_UNREACHABLE == "network_unreachable"
RATE_LIMITED == "rate_limited"
TOOL_NOT_FOUND == "tool_not_found"
INVALID_PARAMETERS == "invalid_parameters"
RESOURCE_EXHAUSTED == "resource_exhausted"
AUTHENTICATION_FAILED == "authentication_failed"
TARGET_UNREACHABLE == "target_unreachable"
PARSING_ERROR == "parsing_error"
UNKNOWN == "unknown"

ErrorType ==
  { TIMEOUT, PERMISSION_DENIED, NETWORK_UNREACHABLE, RATE_LIMITED, TOOL_NOT_FOUND,
    INVALID_PARAMETERS, RESOURCE_EXHAUSTED, AUTHENTICATION_FAILED,
    TARGET_UNREACHABLE, PARSING_ERROR, UNKNOWN }

RETRY_WITH_BACKOFF == "retry_with_backoff"
RETRY_WITH_REDUCED_SCOPE == "retry_with_reduced_scope"
SWITCH_TO_ALTERNATIVE_TOOL == "switch_to_alternative_tool"
ADJUST_PARAMETERS == "adjust_parameters"
ESCALATE_TO_HUMAN == "escalate_to_human"
GRACEFUL_DEGRADATION == "graceful_degradation"
ABORT_OPERATION == "abort_operation"

RecoveryAction ==
  { RETRY_WITH_BACKOFF, RETRY_WITH_REDUCED_SCOPE, SWITCH_TO_ALTERNATIVE_TOOL,
    ADJUST_PARAMETERS, ESCALATE_TO_HUMAN, GRACEFUL_DEGRADATION, ABORT_OPERATION }

(***************************************************************************)
(* Strings.  str.lower() maps each upper-case ASCII letter to its          *)
(* lower-case letter and leaves every other character alone.               *)
(***************************************************************************)
UpperLetters == "ABCDEFGHIJKLMNOPQRSTUVWXYZ"
LowerLetters == "abcdefghijklmnopqrstuvwxyz"

CharAt(s, i) == SubSeq(s, i, i)

LowerChar(c) ==
  IF \E i \in 1..26 : CharAt(UpperLetters, i) = c
    THEN CharAt(LowerLetters, CHOOSE i \in 1..26 : CharAt(UpperLetters, i) = c)
    ELSE c

UpperChar(c) ==
  IF \E i \in 1..26 : CharAt(LowerLetters, i) = c
    THEN CharAt(UpperLetters, CHOOSE i \in 1..26 : CharAt(LowerLetters, i) = c)
    ELSE c

RECURSIVE Lower(_)
Lower(s) ==
  IF Len(s) = 0 THEN ""
  ELSE LowerChar(CharAt(s, 1)) \o Lower(SubSeq(s, 2, Len(s)))

RECURSIVE Upper(_)
Upper(s) ==
  IF Len(s) = 0 THEN ""
  ELSE UpperChar(CharAt(s, 1)) \o Upper(SubSeq(s, 2, Len(s)))

\* str.capitalize(): first character upper-cased, the rest lower-cased.
Capitalize(s) ==
  IF Len(s) = 0 THEN ""
  ELSE UpperChar(CharAt(s, 1)) \o Lower(SubSeq(s, 2, Len(s)))

\* The literal `alt` occurs somewhere in `text`.
Occurs(alt, text) ==
  \E i \in 1..(Len(text) - Len(alt) + 1) : SubSeq(text, i, i + Len(alt) - 1) = alt

(***************************************************************************)
(* _initialize_error_patterns: the dict of regular expressions, in         *)
(* insertion order.  Every pattern is an alternation of literals, written  *)
(* here as the sequence of its alternatives.                               *)
(***************************************************************************)
initialize_error_patterns ==
  << [alts |-> <<"timeout", "timed out", "connection timeout", "read timeout">>,
      error_type |-> TIMEOUT],
     [alts |-> <<"operation timed out", "command timeout">>,
      error_type |-> TIMEOUT],
     [alts |-> <<"permission denied", "access denied", "forbidden", "not authorized">>,
      error_type |-> PERMISSION_DENIED],
     [alts |-> <<"sudo required", "root required", "insufficient privileges">>,
      error_type |-> PERMISSION_DENIED],
     [alts |-> <<"network unreachable", "host unreachable", "no route to host">>,
      error_type |-> NETWORK_UNREACHABLE],
     [alts |-> <<"connection refused", "connection reset", "network error">>,
      error_type |-> NETWORK_UNREACHABLE],
     [alts |-> <<"rate limit", "too many requests", "throttled", "429">>,
      error_type |-> RATE_LIMITED],
     [alts |-> <<"request limit exceeded", "quota exceeded">>,
      error_type |-> RATE_LIMITED],
     [alts |-> <<"command not found", "no such file or directory", "not found">>,
      error_type |-> TOOL_NOT_FOUND],
     [alts |-> <<"executable not found", "binary not found">>,
      error_type |-> TOOL_NOT_FOUND],
     [alts |-> <<"invalid argument", "invalid option", "unknown option">>,
      error_type |-> INVALID_PARAMETERS],
     [alts |-> <<"bad parameter", "invalid parameter", "syntax error">>,
      error_type |-> INVALID_PARAMETERS],
     [alts |-> <<"out of memory", "memory error", "disk full", "no space left">>,
      error_type |-> RESOURCE_EXHAUSTED],
     [alts |-> <<"resource temporarily unavailable", "too many open files">>,
      error_type |-> RESOURCE_EXHAUSTED],
     [alts |-> <<"authentication failed", "login failed", "invalid credentials">>,
      error_type |-> AUTHENTICATION_FAILED],
     [alts |-> <<"unauthorized", "invalid token", "expired token">>,
      error_type |-> AUTHENTICATION_FAILED],
     [alts |-> <<"target unreachable", "target not responding", "target down">>,
      error_type |-> TARGET_UNREACHABLE],
     [alts |-> <<"host not found", "dns resolution failed">>,
      error_type |-> TARGET_UNREACHABLE],
     [alts |-> <<"parse error", "parsing failed", "invalid format", "malformed">>,
      error_type |-> PARSING_ERROR],
     [alts |-> <<"json decode error", "xml parse error", "invalid json">>,
      error_type |-> PARSING_ERROR] >>

\* self.error_patterns, as set by __init__.
error_patterns_no_rate_limit ==
  SelectSeq(initialize_error_patterns, LAMBDA rule : rule.error_type # RATE_LIMITED)

error_patterns == initialize_error_patterns

\* re.search(pattern, error_text, re.IGNORECASE): the patterns are lower-case
\* literals and error_text is already lower-cased, so IGNORECASE folds the text
\* once more and the search is for any alternative at any position.
re_search(pattern, error_text) ==
  LET folded == Lower(error_text)
  IN  \E k \in 1..Len(pattern.alts) : Occurs(pattern.alts[k], folded)

(***************************************************************************)
(* Exceptions.  An exception is known to the handler by its class;         *)
(* isinstance follows the class's bases.                                   *)
(***************************************************************************)
ExceptionBases ==
  [ Exception |-> {"Exception"},
    ValueError |-> {"ValueError", "Exception"},
    OSError |-> {"OSError", "Exception"},
    TimeoutExpired |-> {"TimeoutExpired", "SubprocessError", "Exception"},
    TimeoutError |-> {"TimeoutError", "OSError", "Exception"},
    PermissionError |-> {"PermissionError", "OSError", "Exception"},
    ConnectionError |-> {"ConnectionError", "OSError", "Exception"},
    ConnectionRefusedError |->
      {"ConnectionRefusedError", "ConnectionError", "OSError", "Exception"},
    FileNotFoundError |-> {"FileNotFoundError", "OSError", "Exception"} ]

ExceptionClasses == DOMAIN ExceptionBases

isinstance(exception, cls) == cls \in ExceptionBases[exception]

\* What a call left behind: nothing yet, a call being made, or its return value.
NoCall == [status |-> "none"]
Pending == [status |-> "pending"]
Returned(value) == [status |-> "returned", value |-> value]

(***************************************************************************)
(* classify_error(error_message, exception=None)                           *)
(***************************************************************************)
\* The for loop over error_patterns.items(), from rule i on, and the return
\* that follows it.
RECURSIVE classify_patterns_last(_, _)
classify_patterns_last(error_text, i) ==
  IF i > Len(error_patterns) THEN UNKNOWN
  ELSE LET later == classify_patterns_last(error_text, i + 1)
       IN  IF later # UNKNOWN THEN later
           ELSE IF re_search(error_patterns[i], error_text)
             THEN error_patterns[i].error_type
           ELSE UNKNOWN

RECURSIVE classify_patterns_no_default(_, _)
classify_patterns_no_default(error_text, i) ==
  IF i > Len(error_patterns) THEN None
  ELSE IF re_search(error_patterns[i], error_text) THEN error_patterns[i].error_type
  ELSE classify_patterns_no_default(error_text, i + 1)

RECURSIVE classify_patterns(_, _)
classify_patterns(error_text, i) ==
  IF i > Len(error_patterns) THEN UNKNOWN
  ELSE IF re_search(error_patterns[i], error_text) THEN error_patterns[i].error_type
  ELSE classify_patterns(error_text, i + 1)

classify_error_patterns_first(error_message, exception) ==
  LET error_text == Lower(error_message)
      by_text == classify_patterns(error_text, 1)
  IN  IF by_text # UNKNOWN THEN by_text
      ELSE IF exception # None /\ isinstance(exception, "TimeoutError") THEN TIMEOUT
      ELSE IF exception # None /\ isinstance(exception, "PermissionError")
        THEN PERMISSION_DENIED
      ELSE IF exception # None /\ isinstance(exception, "ConnectionError")
        THEN NETWORK_UNREACHABLE
      ELSE IF exception # None /\ isinstance(exception, "FileNotFoundError")
        THEN TOOL_NOT_FOUND
      ELSE UNKNOWN

classify_error(error_message, exception) ==
  LET error_text == Lower(error_message)
  IN  IF exception # None /\ isinstance(exception, "TimeoutError") THEN TIMEOUT
      ELSE IF exception # None /\ isinstance(exception, "PermissionError")
        THEN PERMISSION_DENIED
      ELSE IF exception # None /\ isinstance(exception, "ConnectionError")
        THEN NETWORK_UNREACHABLE
      ELSE IF exception # None /\ isinstance(exception, "FileNotFoundError")
        THEN TOOL_NOT_FOUND
      ELSE classify_patterns(error_text, 1)

(***************************************************************************)
(* Python floats.  The score of a strategy is computed in IEEE-754         *)
(* binary64, where 0.8 - 0.12 and 0.7 - 0.02 differ although the decimals  *)
(* are equal, so the arithmetic is modelled with its rounding: a float is  *)
(* sign * m * 2^e with m a natural number of at most 53 bits, and every    *)
(* operation returns the exact result rounded to nearest, ties to even.    *)
(* The values met here are far from the overflow and subnormal ranges.     *)
(*                                                                         *)
(* Natural numbers wider than TLC's integers are sequences of limbs, least *)
(* significant first, with no zero limb at the top (zero is << >>).        *)
(***************************************************************************)
LimbBits == 15
Limb == 2^LimbBits
MantissaBits == 53

Hd(a) == IF a = << >> THEN 0 ELSE Head(a)
Tl(a) == IF a = << >> THEN << >> ELSE Tail(a)

RECURSIVE BNorm(_)
BNorm(a) ==
  IF a = << >> THEN << >>
  ELSE IF a[Len(a)] = 0 THEN BNorm(SubSeq(a, 1, Len(a) - 1))
  ELSE a

RECURSIVE BFromInt(_)
BFromInt(n) == IF n = 0 THEN << >> ELSE <<n % Limb>> \o BFromInt(n \div Limb)

RECURSIVE BAddC(_, _, _)
BAddC(a, b, c) ==
  IF a = << >> /\ b = << >> THEN (IF c = 0 THEN << >> ELSE <<c>>)
  ELSE LET x == Hd(a) + Hd(b) + c
       IN  <<x % Limb>> \o BAddC(Tl(a), Tl(b), x \div Limb)

BAdd(a, b) == BAddC(a, b, 0)

\* a - b - borrow, for a >= b + borrow.
RECURSIVE BSubB(_, _, _)
BSubB(a, b, borrow) ==
  IF a = << >> THEN << >>
  ELSE LET x == Hd(a) - Hd(b) - borrow
       IN  IF x < 0 THEN <<x + Limb>> \o BSubB(Tl(a), Tl(b), 1)
           ELSE <<x>> \o BSubB(Tl(a), Tl(b), 0)

BSub(a, b) == BNorm(BSubB(a, b, 0))

\* a * d + c for a small d (d < Limb).
RECURSIVE BMulSmall(_, _, _)
BMulSmall(a, d, c) ==
  IF a = << >> THEN (IF c = 0 THEN << >> ELSE <<c>>)
  ELSE LET x == Head(a) * d + c
       IN  <<x % Limb>> \o BMulSmall(Tail(a), d, x \div Limb)

RECURSIVE BMul(_, _)
BMul(a, b) ==
  IF a = << >> \/ b = << >> THEN << >>
  ELSE BNorm(BAdd(BMulSmall(a, Head(b), 0), <<0>> \o BMul(a, Tail(b))))

\* -1, 0, 1 as a < b, a = b, a > b.
RECURSIVE BCmp(_, _)
BCmp(a, b) ==
  IF Len(a) # Len(b) THEN (IF Len(a) < Len(b) THEN -1 ELSE 1)
  ELSE IF a = << >> THEN 0
  ELSE IF a[Len(a)] # b[Len(b)] THEN (IF a[Len(a)] < b[Len(b)] THEN -1 ELSE 1)
  ELSE BCmp(SubSeq(a, 1, Len(a) - 1), SubSeq(b, 1, Len(b) - 1))

\* Quotient and remainder of a by a small d (0 < d < Limb).
RECURSIVE BDivSmallR(_, _)
BDivSmallR(a, d) ==
  IF a = << >> THEN [q |-> << >>, r |-> 0]
  ELSE LET hi == BDivSmallR(Tail(a), d)
           cur == hi.r * Limb + Head(a)
       IN  [q |-> <<cur \div d>> \o hi.q, r |-> cur % d]

BDivSmall(a, d) ==
  LET qr == BDivSmallR(a, d) IN [q |-> BNorm(qr.q), r |-> qr.r]

Zeros(n) == [i \in 1..n |-> 0]

\* a * 2^s and floor(a / 2^s).
BShl(a, s) ==
  IF a = << >> THEN << >>
  ELSE Zeros(s \div LimbBits) \o BMulSmall(a, 2^(s % LimbBits), 0)

BShr(a, s) ==
  IF Len(a) <= s \div LimbBits THEN << >>
  ELSE BDivSmall(SubSeq(a, (s \div LimbBits) + 1, Len(a)), 2^(s % LimbBits)).q

RECURSIVE IntBits(_)
IntBits(n) == IF n = 0 THEN 0 ELSE 1 + IntBits(n \div 2)

BitLen(a) == IF a = << >> THEN 0 ELSE (Len(a) - 1) * LimbBits + IntBits(a[Len(a)])

FZero == [s |-> 0, m |-> << >>, e |-> 0]

\* s * m * 2^e rounded to a float; sticky says that the exact value is a
\* little above m * 2^e (a division that left a remainder).
FRound(s, m, e, sticky) ==
  IF m = << >> THEN FZero
  ELSE IF BitLen(m) <= MantissaBits THEN [s |-> s, m |-> m, e |-> e]
  ELSE LET r == BitLen(m) - MantissaBits
           q == BShr(m, r)
           rem == BSub(m, BShl(q, r))
           half == BCmp(BShl(rem, 1), BShl(<<1>>, r))
           up == half > 0 \/ (half = 0 /\ (sticky \/ Hd(q) % 2 = 1))
       IN  [s |-> s, m |-> IF up THEN BAdd(q, <<1>>) ELSE q, e |-> e + r]

\* An int as a float, and the float of the quotient a / b of two small
\* naturals (b > 0): a decimal literal such as 0.7 is the float of 7 / 10.
DivShift == 75

FFromInt(n) ==
  IF n = 0 THEN FZero
  ELSE FRound(IF n < 0 THEN -1 ELSE 1, BFromInt(IF n < 0 THEN -n ELSE n), 0, FALSE)

FDivInt(a, b) ==
  IF a = 0 THEN FZero
  ELSE LET qr == BDivSmall(BShl(BFromInt(a), DivShift), b)
       IN  FRound(1, qr.q, -DivShift, qr.r # 0)

FMul(x, y) == FRound(x.s * y.s, BMul(x.m, y.m), x.e + y.e, FALSE)

\* x ** k for an int k >= 0.
RECURSIVE BPow(_, _)
BPow(a, k) == IF k = 0 THEN <<1>> ELSE BMul(a, BPow(a, k - 1))

FPow(x, k) ==
  IF k = 0 THEN FFromInt(1)
  ELSE FRound(IF k % 2 = 0 THEN x.s * x.s ELSE x.s, BPow(x.m, k), x.e * k, FALSE)

Min(a, b) == IF a < b THEN a ELSE b

\* The exact difference x - y, as sign, magnitude and exponent.
FDiff(x, y) ==
  LET e == Min(x.e, y.e)
      X == BShl(x.m, x.e - e)
      Y == BShl(y.m, y.e - e)
  IN  IF x.s = 0 \/ x.m = << >> THEN [s |-> 0 - y.s, m |-> y.m, e |-> y.e]
      ELSE IF y.s = 0 \/ y.m = << >> THEN x
      ELSE IF x.s # y.s THEN [s |-> x.s, m |-> BAdd(X, Y), e |-> e]
      ELSE IF BCmp(X, Y) = 0 THEN FZero
      ELSE IF BCmp(X, Y) > 0 THEN [s |-> x.s, m |-> BSub(X, Y), e |-> e]
      ELSE [s |-> 0 - x.s, m |-> BSub(Y, X), e |-> e]

FSub(x, y) == LET d == FDiff(x, y) IN FRound(d.s, d.m, d.e, FALSE)

\* x > y and x == y on floats.
FGreater(x, y) == FDiff(x, y).s > 0
FEqual(x, y) == FDiff(x, y).s = 0

(***************************************************************************)
(* RecoveryStrategy and _initialize_recovery_strategies.                   *)
(* backoff_multiplier and success_probability are kept as their decimal    *)
(* literals in tenths (0.7 is 7, 2.0 is 20); Prob gives the float.         *)
(***************************************************************************)
RecoveryStrategy(action, parameters, max_attempts, backoff, probability, time) ==
  [ action |-> action, parameters |-> parameters, max_attempts |-> max_attempts,
    backoff_multiplier |-> backoff, success_probability |-> probability,
    estimated_time |-> time ]

Prob(tenths) == FDivInt(tenths, 10)

initialize_recovery_strategies ==
  [ timeout |-> <<
      RecoveryStrategy(RETRY_WITH_BACKOFF, [initial_delay |-> 5, max_delay |-> 60],
                       3, 20, 7, 30),
      RecoveryStrategy(RETRY_WITH_REDUCED_SCOPE,
                       [reduce_threads |-> TRUE, reduce_timeout |-> TRUE],
                       2, 10, 8, 45),
      RecoveryStrategy(SWITCH_TO_ALTERNATIVE_TOOL, [prefer_faster_tools |-> TRUE],
                       1, 10, 6, 60) >>,
    permission_denied |-> <<
      RecoveryStrategy(ESCALATE_TO_HUMAN,
                       [message |-> "Privilege escalation required", urgency |-> "medium"],
                       1, 10, 9, 300),
      RecoveryStrategy(SWITCH_TO_ALTERNATIVE_TOOL, [require_no_privileges |-> TRUE],
                       1, 10, 5, 30) >>,
    network_unreachable |-> <<
      RecoveryStrategy(RETRY_WITH_BACKOFF, [initial_delay |-> 10, max_delay |-> 120],
                       3, 20, 6, 60),
      RecoveryStrategy(SWITCH_TO_ALTERNATIVE_TOOL, [prefer_offline_tools |-> TRUE],
                       1, 10, 4, 30) >>,
    rate_limited |-> <<
      RecoveryStrategy(RETRY_WITH_BACKOFF, [initial_delay |-> 30, max_delay |-> 300],
                       5, 15, 9, 180),
      RecoveryStrategy(ADJUST_PARAMETERS, [reduce_rate |-> TRUE, increase_delays |-> TRUE],
                       2, 10, 8, 120) >>,
    tool_not_found |-> <<
      RecoveryStrategy(SWITCH_TO_ALTERNATIVE_TOOL, [find_equivalent |-> TRUE],
                       1, 10, 7, 15),
      RecoveryStrategy(ESCALATE_TO_HUMAN,
                       [message |-> "Tool installation required", urgency |-> "low"],
                       1, 10, 9, 600) >>,
    invalid_parameters |-> <<
      RecoveryStrategy(ADJUST_PARAMETERS, [use_defaults |-> TRUE, remove_invalid |-> TRUE],
                       3, 10, 8, 10),
      RecoveryStrategy(SWITCH_TO_ALTERNATIVE_TOOL, [simpler_interface |-> TRUE],
                       1, 10, 6, 30) >>,
    resource_exhausted |-> <<
      RecoveryStrategy(RETRY_WITH_REDUCED_SCOPE,
                       [reduce_memory |-> TRUE, reduce_threads |-> TRUE],
                       2, 10, 7, 60),
      RecoveryStrategy(RETRY_WITH_BACKOFF, [initial_delay |-> 60, max_delay |-> 300],
                       2, 20, 5, 180) >>,
    authentication_failed |-> <<
      RecoveryStrategy(ESCALATE_TO_HUMAN,
                       [message |-> "Authentication credentials required",
                        urgency |-> "high"],
                       1, 10, 9, 300),
      RecoveryStrategy(SWITCH_TO_ALTERNATIVE_TOOL, [no_auth_required |-> TRUE],
                       1, 10, 4, 30) >>,
    target_unreachable |-> <<
      RecoveryStrategy(RETRY_WITH_BACKOFF, [initial_delay |-> 15, max_delay |-> 180],
                       3, 20, 6, 90),
      RecoveryStrategy(GRACEFUL_DEGRADATION,
                       [skip_target |-> TRUE, continue_with_others |-> TRUE],
                       1, 10, 10, 5) >>,
    parsing_error |-> <<
      RecoveryStrategy(ADJUST_PARAMETERS,
                       [change_output_format |-> TRUE, add_parsing_flags |-> TRUE],
                       2, 10, 7, 20),
      RecoveryStrategy(SWITCH_TO_ALTERNATIVE_TOOL, [better_output_format |-> TRUE],
                       1, 10, 6, 30) >>,
    unknown |-> <<
      RecoveryStrategy(RETRY_WITH_BACKOFF, [initial_delay |-> 5, max_delay |-> 30],
                       2, 20, 3, 45),
      RecoveryStrategy(ESCALATE_TO_HUMAN,
                       [message |-> "Unknown error encountered", urgency |-> "medium"],
                       1, 10, 9, 300) >> ]

\* self.recovery_strategies, as set by __init__.
recovery_strategies_ten_retries ==
  [initialize_recovery_strategies EXCEPT ![RATE_LIMITED][1].max_attempts = 10]

recovery_strategies_unknown_retry_only ==
  [initialize_recovery_strategies EXCEPT ![UNKNOWN] = <<@[1]>>]

recovery_strategies == initialize_recovery_strategies

\* dict.get(key, default) on a dict modelled as a function.
dict_get(d, key, default) == IF key \in DOMAIN d THEN d[key] ELSE default

(***************************************************************************)
(* ErrorContext, as handle_tool_failure builds it.  timestamp is the       *)
(* reading of the clock, in seconds; system_resources what                 *)
(* _get_system_resources returned.  stack_trace is a diagnostic text that  *)
(* nothing reads; previous_errors is never passed, so it is the default    *)
(* empty list.                                                             *)
(***************************************************************************)
ErrorContext(tool_name, target, parameters, error_type, error_message, attempt_count, timestamp, system_resources) ==
  [ tool_name |-> tool_name, target |-> target, parameters |-> parameters,
    error_type |-> error_type, error_message |-> error_message,
    attempt_count |-> attempt_count, timestamp |-> timestamp,
    system_resources |-> system_resources, previous_errors |-> << >> ]

(***************************************************************************)
(* _get_system_resources(): the readings of psutil and os, or the marker   *)
(* of a failed reading.  A host is what the readings would give, and       *)
(* whether reading raises.                                                 *)
(***************************************************************************)
HostUp ==
  [ raises |-> FALSE, cpu_percent |-> 12, memory_percent |-> 40, disk_percent |-> 55,
    load_average |-> <<1, 1, 1>>, active_processes |-> 200 ]

HostDown == [raises |-> TRUE]

\* The readings without the except clause: the exception leaves the function.
get_system_resources_unguarded(host) ==
  IF host.raises THEN [raised |-> "Exception"]
  ELSE [ cpu_percent |-> host.cpu_percent, memory_percent |-> host.memory_percent,
         disk_percent |-> host.disk_percent, load_average |-> host.load_average,
         active_processes |-> host.active_processes ]

get_system_resources(host) ==
  IF host.raises THEN [error |-> "Unable to get system resources"]
  ELSE [ cpu_percent |-> host.cpu_percent, memory_percent |-> host.memory_percent,
         disk_percent |-> host.disk_percent, load_average |-> host.load_average,
         active_processes |-> host.active_processes ]

(***************************************************************************)
(* datetime.isoformat() of a reading of the clock.  The clock counts the   *)
(* seconds of one day, ClockDate, from midnight.                           *)
(***************************************************************************)
ClockDate == "2024-01-01"

Digits == "0123456789"

TwoDigits(n) == CharAt(Digits, (n \div 10) + 1) \o CharAt(Digits, (n % 10) + 1)

isoformat(seconds) ==
  ClockDate \o "T" \o TwoDigits(seconds \div 3600) \o ":"
            \o TwoDigits((seconds % 3600) \div 60) \o ":" \o TwoDigits(seconds % 60)

(***************************************************************************)
(* _select_best_strategy(strategies, context)                              *)
(***************************************************************************)
\* The strategy returned when no strategy is viable.
exhausted_strategy_medium(tool_name) ==
  RecoveryStrategy(ESCALATE_TO_HUMAN,
                   [message |-> "All recovery strategies exhausted for " \o tool_name,
                    urgency |-> "medium"],
                   1, 10, 9, 300)

exhausted_strategy(tool_name) ==
  RecoveryStrategy(ESCALATE_TO_HUMAN,
                   [message |-> "All recovery strategies exhausted for " \o tool_name,
                    urgency |-> "high"],
                   1, 10, 9, 300)

\* [s for s in strategies if context.attempt_count <= s.max_attempts]
viable_from_zero(strategies, context) ==
  SelectSeq(strategies, LAMBDA s : context.attempt_count - 1 <= s.max_attempts)

viable_below(strategies, context) ==
  SelectSeq(strategies, LAMBDA s : context.attempt_count < s.max_attempts)

viable_strategies(strategies, context) ==
  SelectSeq(strategies, LAMBDA s : context.attempt_count <= s.max_attempts)

\* strategy.success_probability * (0.9 ** (context.attempt_count - 1))
adjusted_probability_flat(strategy, attempt_count) == Prob(strategy.success_probability)

adjusted_probability_of(strategy, attempt_count) ==
  FMul(Prob(strategy.success_probability), FPow(Prob(9), attempt_count - 1))

\* adjusted_probability - (strategy.estimated_time / 1000.0)
score_of(strategy, attempt_count) ==
  FSub(adjusted_probability_of(strategy, attempt_count),
       FDivInt(strategy.estimated_time, 1000))

\* scored_strategies: the (score, strategy) pairs of the viable strategies.
scored(viable, context) ==
  [i \in 1..Len(viable) |->
     [score |-> score_of(viable[i], context.attempt_count), strategy |-> viable[i]]]

\* list.sort(key=lambda x: x[0], reverse=True): a stable sort into descending
\* order of the score, so that equal scores keep their order in the list.
\* Insert x behind every element whose score is not smaller.
RECURSIVE insert_desc(_, _)
insert_desc(x, sorted) ==
  IF sorted = << >> THEN <<x>>
  ELSE IF FGreater(x.score, Head(sorted).score) THEN <<x>> \o sorted
  ELSE <<Head(sorted)>> \o insert_desc(x, Tail(sorted))

RECURSIVE insert_desc_unstable(_, _)
insert_desc_unstable(x, sorted) ==
  IF sorted = << >> THEN <<x>>
  ELSE IF ~FGreater(Head(sorted).score, x.score) THEN <<x>> \o sorted
  ELSE <<Head(sorted)>> \o insert_desc_unstable(x, Tail(sorted))

RECURSIVE sort_from(_, _, _)
sort_from(list, i, sorted) ==
  IF i > Len(list) THEN sorted
  ELSE sort_from(list, i + 1, insert_desc(list[i], sorted))

RECURSIVE sort_unstable_from(_, _, _)
sort_unstable_from(list, i, sorted) ==
  IF i > Len(list) THEN sorted
  ELSE sort_unstable_from(list, i + 1, insert_desc_unstable(list[i], sorted))

sort_reverse_unstable(list) == sort_unstable_from(list, 1, << >>)

sort_reverse(list) == sort_from(list, 1, << >>)

select_best_strategy(strategies, context) ==
  LET viable == viable_strategies(strategies, context)
  IN  IF viable = << >> THEN exhausted_strategy(context.tool_name)
      ELSE sort_reverse(scored(viable, context))[1].strategy

(***************************************************************************)
(* _initialize_parameter_adjustments and _initialize_tool_alternatives,    *)
(* and the four tables as __init__ leaves them.                            *)
(***************************************************************************)
initialize_parameter_adjustments ==
  [ nmap |->
      [ timeout |-> [timing |-> "-T2", reduce_ports |-> TRUE],
        rate_limited |-> [timing |-> "-T1", delay |-> "1000ms"],
        resource_exhausted |-> [max_parallelism |-> "10"] ],
    gobuster |->
      [ timeout |-> [threads |-> "10", timeout |-> "30s"],
        rate_limited |-> [threads |-> "5", delay |-> "1s"],
        resource_exhausted |-> [threads |-> "5"] ],
    nuclei |->
      [ timeout |-> [concurrency |-> "10", timeout |-> "30"],
        rate_limited |-> ("rate-limit" :> "10") @@ ("concurrency" :> "5"),
        resource_exhausted |-> [concurrency |-> "5"] ],
    feroxbuster |->
      [ timeout |-> [threads |-> "10", timeout |-> "30"],
        rate_limited |-> ("threads" :> "5") @@ ("rate-limit" :> "10"),
        resource_exhausted |-> [threads |-> "5"] ],
    ffuf |->
      [ timeout |-> [threads |-> "10", timeout |-> "30"],
        rate_limited |-> [threads |-> "5", rate |-> "10"],
        resource_exhausted |-> [threads |-> "5"] ] ]

\* self.parameter_adjustments, as set by __init__.
parameter_adjustments == initialize_parameter_adjustments

initialize_tool_alternatives ==
  ("nmap" :> <<"rustscan", "masscan", "zmap">>) @@
  ("rustscan" :> <<"nmap", "masscan">>) @@
  ("masscan" :> <<"nmap", "rustscan", "zmap">>) @@
  ("gobuster" :> <<"feroxbuster", "dirsearch", "ffuf", "dirb">>) @@
  ("feroxbuster" :> <<"gobuster", "dirsearch", "ffuf">>) @@
  ("dirsearch" :> <<"gobuster", "feroxbuster", "ffuf">>) @@
  ("ffuf" :> <<"gobuster", "feroxbuster", "dirsearch">>) @@
  ("nuclei" :> <<"jaeles", "nikto", "w3af">>) @@
  ("jaeles" :> <<"nuclei", "nikto">>) @@
  ("nikto" :> <<"nuclei", "jaeles", "w3af">>) @@
  ("katana" :> <<"gau", "waybackurls", "hakrawler">>) @@
  ("gau" :> <<"katana", "waybackurls", "hakrawler">>) @@
  ("waybackurls" :> <<"gau", "katana", "hakrawler">>) @@
  ("arjun" :> <<"paramspider", "x8", "ffuf">>) @@
  ("paramspider" :> <<"arjun", "x8">>) @@
  ("x8" :> <<"arjun", "paramspider">>) @@
  ("sqlmap" :> <<"sqlninja", "jsql-injection">>) @@
  ("dalfox" :> <<"xsser", "xsstrike">>) @@
  ("subfinder" :> <<"amass", "assetfinder", "findomain">>) @@
  ("amass" :> <<"subfinder", "assetfinder", "findomain">>) @@
  ("assetfinder" :> <<"subfinder", "amass", "findomain">>) @@
  ("prowler" :> <<"scout-suite", "cloudmapper">>) @@
  ("scout-suite" :> <<"prowler", "cloudmapper">>) @@
  ("trivy" :> <<"clair", "docker-bench-security">>) @@
  ("clair" :> <<"trivy", "docker-bench-security">>) @@
  ("ghidra" :> <<"radare2", "ida", "binary-ninja">>) @@
  ("radare2" :> <<"ghidra", "objdump", "gdb">>) @@
  ("gdb" :> <<"radare2", "lldb">>) @@
  ("pwntools" :> <<"ropper", "ropgadget">>) @@
  ("ropper" :> <<"ropgadget", "pwntools">>) @@
  ("ropgadget" :> <<"ropper", "pwntools">>)

\* self.tool_alternatives, as set by __init__.
tool_alternatives_with_itself ==
  [t \in DOMAIN initialize_tool_alternatives |-> <<t>> \o initialize_tool_alternatives[t]]

tool_alternatives == initialize_tool_alternatives

\* The static tables of a handler just constructed (lines 96-99).
ConstructedTables ==
  [ error_patterns |-> error_patterns,
    recovery_strategies |-> recovery_strategies,
    tool_alternatives |-> tool_alternatives,
    parameter_adjustments |-> parameter_adjustments ]

(***************************************************************************)
(* _add_to_history and handle_tool_failure.                                *)
(* The source sets max_history_size to 1000; the model keeps the ledger's  *)
(* capacity small, so that eviction is reached: a handler is constructed   *)
(* with a capacity from MinHistorySize to MaxHistorySize.                  *)
(***************************************************************************)
MinHistorySize == 1

MaxHistorySize == 3

\* list[-n:] for n >= 1: the last n elements, the whole list if it is shorter.
slice_last(list, n) ==
  IF Len(list) > n THEN SubSeq(list, Len(list) - n + 1, Len(list)) ELSE list

\* _add_to_history(error_context): append, then keep the last
\* max_history_size entries.
add_to_history_unbounded(history, error_context) == Append(history, error_context)

add_to_history_keep_oldest(history, error_context) ==
  LET extended == Append(history, error_context)
  IN  IF Len(extended) > max_history_size
        THEN SubSeq(extended, 1, max_history_size)
        ELSE extended

add_to_history(history, error_context) ==
  LET extended == Append(history, error_context)
  IN  IF Len(extended) > max_history_size
        THEN slice_last(extended, max_history_size)
        ELSE extended

\* The ErrorContext handle_tool_failure builds for a failure: error is the
\* exception ([cls, message], str(error) being its message), context the
\* caller's dict.
error_context_of(tool, error, context, timestamp, host) ==
  LET error_message == error.message
      error_type == classify_error(error_message, error.cls)
  IN  ErrorContext(tool, dict_get(context, "target", "unknown"),
                   dict_get(context, "parameters", << >>), error_type, error_message,
                   dict_get(context, "attempt_count", 1), timestamp,
                   get_system_resources(host))

\* What handle_tool_failure writes to the logger (line 497): a warning, given
\* by the arguments of the card that is formatted.
recovery_log(tool, error_type, best_strategy) ==
  << [ level |-> "warning", card |-> "RECOVERY", tool |-> tool,
       message |-> error_type \o " - Applying " \o best_strategy.action ] >>

\* The strategy handle_tool_failure returns for the ErrorContext it built.
best_strategy_of_unknown_entry(error_context) ==
  select_best_strategy(recovery_strategies[UNKNOWN], error_context)

best_strategy_of(error_context) ==
  LET strategies == dict_get(recovery_strategies, error_context.error_type,
                             recovery_strategies[UNKNOWN])
  IN  select_best_strategy(strategies, error_context)

(***************************************************************************)
(* The handler in use: any caller may report any failure at any time.      *)
(***************************************************************************)
MaxAttempt == 6

Tools == {"nmap", "gobuster"}

Exc(cls, message) == [cls |-> cls, message |-> message]

\* One failure of every kind by its text, and kinds given by the exception.
HandleErrors ==
  { Exc("Exception", "Connection timed out"),
    Exc("Exception", "Permission denied: /etc/x"),
    Exc("Exception", "connect: Connection refused"),
    Exc("Exception", "rate limit exceeded (429)"),
    Exc("Exception", "nmap: command not found"),
    Exc("Exception", "invalid option -- z"),
    Exc("Exception", "Out of memory"),
    Exc("Exception", "Login failed for admin"),
    Exc("Exception", "Target down"),
    Exc("Exception", "malformed response"),
    Exc("Exception", "segmentation fault"),
    Exc("TimeoutError", "") }

\* The context dict the caller passes for a tool, at a given attempt.
ContextOf(tool, a) ==
  IF tool = "gobuster"
    THEN [target |-> "http://t", parameters |-> [threads |-> "50"], attempt_count |-> a]
    ELSE [target |-> "10.0.0.1", attempt_count |-> a]

\* Every failure, for every tool, at every attempt; and a call whose context
\* carries nothing.
HandleCalls ==
  { [tool |-> t, error |-> e, context |-> ContextOf(t, a)] :
      t \in Tools, e \in HandleErrors, a \in 1..MaxAttempt }
  \union
  { [tool |-> "gobuster", error |-> Exc("FileNotFoundError", "gobuster"),
     context |-> << >>] }

\* handle_tool_failure reads nothing of the handler's state to decide, so what
\* it builds and returns for each call of the model is evaluated once, at
\* clock 0 on the host HostUp; the strategy depends neither on the timestamp
\* nor on the readings of the host.
handled ==
  [c \in HandleCalls |->
     LET error_context == error_context_of(c.tool, c.error, c.context, 0, HostUp)
         best_strategy == best_strategy_of(error_context)
     IN  [error_context |-> error_context,
          best_strategy |-> best_strategy,
          logged |-> recovery_log(c.tool, error_context.error_type, best_strategy)]]

\* The ErrorContext of call c made when the clock reads timestamp.
error_context_at(c, timestamp) ==
  [handled[c].error_context EXCEPT !.timestamp = timestamp]

\* No handle_tool_failure call runs concurrently.
NoThreads == << >>

\* IntelligentErrorHandler() with the given capacity, at clock 0.
Constructed(capacity) ==
  /\ error_history = << >>
  /\ max_history_size = capacity
  /\ now = 0
  /\ threads = NoThreads
  /\ appended = << >>
  /\ logged = << >>
  /\ classified = {}
  /\ tables = ConstructedTables

Init ==
  /\ Constructed(MinHistorySize)
  /\ call = [op |-> "none"]
  /\ ret = NoCall

HandleToolFailure ==
  \E c \in HandleCalls :
    /\ error_history' = add_to_history(error_history, error_context_at(c, now))
    /\ call' = [op |-> "handle_tool_failure", tool |-> c.tool, error |-> c.error,
                context |-> c.context]
    /\ ret' = Returned(handled[c].best_strategy)
    /\ logged' = handled[c].logged
    /\ UNCHANGED <<max_history_size, now, threads, appended, classified, tables>>

Next == HandleToolFailure

Spec == Init /\ [][Next]_vars

(***************************************************************************)
(* The classifier alone: classify_error applied to a message and an        *)
(* exception (or none).  The messages are every literal of the pattern     *)
(* table in three letter cases, and messages around them.                  *)
(***************************************************************************)
Range(f) == {f[i] : i \in DOMAIN f}

DocumentedStrings == UNION {Range(initialize_error_patterns[i].alts) :
                              i \in DOMAIN initialize_error_patterns}

DocumentedMessages ==
  DocumentedStrings \union {Upper(x) : x \in DocumentedStrings}
                    \union {Capitalize(x) : x \in DocumentedStrings}

OtherMessages ==
  { "", "segmentation fault", "Connection timed out", "Permission denied: /etc/x",
    "429 Too Many Requests", "connect: Connection refused (rate limit)",
    "nmap: command not found", "Command 'nmap' timed out after 5 seconds",
    "Access denied: invalid token", "Not Found" }

\* One entry of classified: a call of classify_error and what it returned.
Classified(error_message, exception, error_type) ==
  [error_message |-> error_message, exception |-> exception, error_type |-> error_type]

ClassifyCalls ==
  { [op |-> "classify_error", error_message |-> m, exception |-> None] :
      m \in DocumentedMessages \union OtherMessages }
  \union
  { [op |-> "classify_error", error_message |-> m, exception |-> e] :
      m \in OtherMessages, e \in ExceptionClasses }

InitClassify ==
  /\ Constructed(MinHistorySize)
  /\ call \in ClassifyCalls
  /\ ret = Pending

ClassifyError ==
  /\ call.op = "classify_error"
  /\ ret = Pending
  /\ ret' = Returned(classify_error(call.error_message, call.exception))
  /\ classified' = classified \union
       {Classified(call.error_message, call.exception,
                   classify_error(call.error_message, call.exception))}
  /\ logged' = << >>
  /\ UNCHANGED <<error_history, max_history_size, now, call, threads, appended, tables>>

NextClassify == ClassifyError

SpecClassify == InitClassify /\ [][NextClassify]_vars

(***************************************************************************)
(* The selector alone: _select_best_strategy applied to a list of          *)
(* strategies and a context.  The lists are drawn from templates of the    *)
(* catalog that differ in max_attempts, tie in score (the two escalations) *)
(* and tie as decimals but not as floats (0.8 - 0.12 and 0.7 - 0.02).      *)
(***************************************************************************)
MaxStrategies == 2

StrategyPool ==
  { initialize_recovery_strategies[RATE_LIMITED][1],
    initialize_recovery_strategies[RATE_LIMITED][2],
    initialize_recovery_strategies[PARSING_ERROR][1],
    initialize_recovery_strategies[PERMISSION_DENIED][1],
    initialize_recovery_strategies[AUTHENTICATION_FAILED][1],
    initialize_recovery_strategies[TIMEOUT][1] }

StrategyLists == UNION {[1..n -> StrategyPool] : n \in 1..MaxStrategies}

SelectCalls ==
  { [op |-> "select_best_strategy", strategies |-> l,
     context |-> ErrorContext(t, "10.0.0.1", << >>, UNKNOWN, "segmentation fault", a, 0,
                              get_system_resources(HostUp))] :
      l \in StrategyLists, t \in Tools, a \in 1..MaxAttempt }

InitSelect ==
  /\ Constructed(MinHistorySize)
  /\ call \in SelectCalls
  /\ ret = Pending

SelectBestStrategy ==
  /\ call.op = "select_best_strategy"
  /\ ret = Pending
  /\ ret' = Returned(select_best_strategy(call.strategies, call.context))
  /\ logged' = << >>
  /\ UNCHANGED <<error_history, max_history_size, now, call, threads, appended, classified, tables>>

NextSelect == SelectBestStrategy

SpecSelect == InitSelect /\ [][NextSelect]_vars

(***************************************************************************)
(* get_error_statistics().  A dict is a function on its keys; the empty    *)
(* dict is the empty function << >>.                                       *)
(***************************************************************************)
\* d[key] = value
dict_set(d, key, value) ==
  [k \in DOMAIN d \union {key} |-> IF k = key THEN value ELSE d[k]]

\* One pass of the loop over self.error_history: the counts by type, the
\* counts by tool and the list of the errors of the last hour.  The loop
\* reads datetime.now() anew for each incident: clocks[i] is what the clock
\* shows when incident i is examined.
RECURSIVE statistics_loop(_, _, _, _)
statistics_loop(history, i, clocks, acc) ==
  IF i > Len(history) THEN acc
  ELSE
    LET error == history[i]
        error_type == error.error_type
        tool == error.tool_name
        recent == [tool |-> tool, error_type |-> error_type,
                   timestamp |-> isoformat(error.timestamp)]
    IN  statistics_loop(history, i + 1, clocks,
          [ error_counts |->
              dict_set(acc.error_counts, error_type,
                       dict_get(acc.error_counts, error_type, 0) + 1),
            tool_errors |->
              dict_set(acc.tool_errors, tool, dict_get(acc.tool_errors, tool, 0) + 1),
            recent_errors |->
              IF clocks[i] - error.timestamp < 3600
                THEN Append(acc.recent_errors, recent)
                ELSE acc.recent_errors ])

get_error_statistics_skip_first(history, clocks) ==
  IF history = << >> THEN [total_errors |-> 0]
  ELSE
    LET acc == statistics_loop(history, 2, clocks,
                 [error_counts |-> << >>, tool_errors |-> << >>, recent_errors |-> << >>])
    IN  [ total_errors |-> Len(history),
          error_counts_by_type |-> acc.error_counts,
          error_counts_by_tool |-> acc.tool_errors,
          recent_errors_count |-> Len(acc.recent_errors),
          recent_errors |-> slice_last(acc.recent_errors, 10) ]

get_error_statistics(history, clocks) ==
  IF history = << >> THEN [total_errors |-> 0]
  ELSE
    LET acc == statistics_loop(history, 1, clocks,
                 [error_counts |-> << >>, tool_errors |-> << >>, recent_errors |-> << >>])
    IN  [ total_errors |-> Len(history),
          error_counts_by_type |-> acc.error_counts,
          error_counts_by_tool |-> acc.tool_errors,
          recent_errors_count |-> Len(acc.recent_errors),
          recent_errors |-> slice_last(acc.recent_errors, 10) ]

(***************************************************************************)
(* The ledger in use: a handler of any capacity, failures of two kinds for *)
(* two tools reported one after the other while the clock advances, and    *)
(* statistics read at any time.  Every incident handed to _add_to_history  *)
(* is recorded in appended.                                                *)
(***************************************************************************)
MaxAppends == 4

ClockStep == 1800

MaxClock == 3600

LedgerErrors ==
  { Exc("Exception", "Connection timed out"),
    Exc("Exception", "rate limit exceeded (429)") }

LedgerCalls == { c \in HandleCalls : c.error \in LedgerErrors /\ c.context.attempt_count = 1 }

InitLedger ==
  /\ \E capacity \in MinHistorySize..MaxHistorySize : Constructed(capacity)
  /\ call = [op |-> "none"]
  /\ ret = NoCall

RecordedHandleToolFailure ==
  \E c \in LedgerCalls :
    /\ Len(appended) < MaxAppends
    /\ error_history' = add_to_history(error_history, error_context_at(c, now))
    /\ appended' = Append(appended, error_context_at(c, now))
    /\ call' = [op |-> "handle_tool_failure", tool |-> c.tool, error |-> c.error,
                context |-> c.context]
    /\ ret' = Returned(handled[c].best_strategy)
    /\ logged' = handled[c].logged
    /\ UNCHANGED <<max_history_size, now, threads, classified, tables>>

\* What the clock can show from the given time on.
ClockValues(clock) == { clock + k * ClockStep : k \in 0..((MaxClock - clock) \div ClockStep) }

\* The n successive readings a call can make of a clock that shows the given
\* time when the call begins: the clock may advance between two readings and
\* never goes back.
RECURSIVE ClockReadings(_, _)
ClockReadings(clock, n) ==
  IF n = 0 THEN { << >> }
  ELSE UNION { { <<c>> \o rest : rest \in ClockReadings(c, n - 1) } : c \in ClockValues(clock) }

\* The time when a call that made the given readings has made its last one.
ClockAfter(clock, clocks) == IF clocks = << >> THEN clock ELSE clocks[Len(clocks)]

\* get_error_statistics(): one reading of the clock for each incident of the
\* ledger, the clock standing where the last reading left it.
GetErrorStatistics ==
  \E clocks \in ClockReadings(now, Len(error_history)) :
    /\ call' = [op |-> "get_error_statistics"]
    /\ ret' = Returned(get_error_statistics(error_history, clocks))
    /\ now' = ClockAfter(now, clocks)
    /\ logged' = << >>
    /\ UNCHANGED <<error_history, max_history_size, threads, appended, classified, tables>>

\* Time passes.
Tick ==
  /\ now + ClockStep <= MaxClock
  /\ now' = now + ClockStep
  /\ UNCHANGED <<error_history, max_history_size, call, ret, threads, appended, logged, classified, tables>>

NextLedger == RecordedHandleToolFailure \/ GetErrorStatistics \/ Tick

SpecLedger == InitLedger /\ [][NextLedger]_vars

(***************************************************************************)
(* Concurrent failures: the module's one error_handler is called from      *)
(* several threads, and handle_tool_failure takes no lock.  A thread may   *)
(* be suspended between any two steps of _add_to_history: the append, the  *)
(* test of the length, the evaluation of the slice and the assignment of   *)
(* the slice to self.error_history; and, back in handle_tool_failure,      *)
(* after the selection of the strategy and after the line it logs.         *)
(***************************************************************************)
MaxThreads == 2

ThreadIds == 1..MaxThreads

ThreadCalls == { c \in LedgerCalls : c.error = Exc("Exception", "Connection timed out") }

Idle == [pc |-> "idle"]

\* The calls entered so far, whether or not they have appended yet.
Entered == Len(appended) + Cardinality({t \in ThreadIds : threads[t].pc = "append"})

InitThreads ==
  /\ error_history = << >>
  /\ max_history_size = MinHistorySize
  /\ now = 0
  /\ threads = [t \in ThreadIds |-> Idle]
  /\ appended = << >>
  /\ logged = << >>
  /\ classified = {}
  /\ tables = ConstructedTables
  /\ call = [op |-> "none"]
  /\ ret = NoCall

\* handle_tool_failure is entered: the error is classified and the
\* ErrorContext built.
ThreadCall(t) ==
  /\ threads[t].pc = "idle"
  /\ Entered < MaxAppends
  /\ \E c \in ThreadCalls :
       threads' = [threads EXCEPT ![t] =
                     [pc |-> "append", c |-> c, error_context |-> error_context_at(c, now)]]
  /\ UNCHANGED <<error_history, max_history_size, now, call, ret, appended, logged, classified, tables>>

\* self.error_history.append(error_context)
ThreadAppend(t) ==
  /\ threads[t].pc = "append"
  /\ error_history' = Append(error_history, threads[t].error_context)
  /\ appended' = Append(appended, threads[t].error_context)
  /\ threads' = [threads EXCEPT ![t].pc = "test"]
  /\ UNCHANGED <<max_history_size, now, call, ret, logged, classified, tables>>

\* if len(self.error_history) > self.max_history_size
ThreadTest(t) ==
  /\ threads[t].pc = "test"
  /\ threads' = [threads EXCEPT ![t].pc =
                   IF Len(error_history) > max_history_size THEN "slice" ELSE "select"]
  /\ UNCHANGED <<error_history, max_history_size, now, call, ret, appended, logged, classified, tables>>

\* self.error_history[-self.max_history_size:] is evaluated
ThreadSlice(t) ==
  /\ threads[t].pc = "slice"
  /\ threads' = [threads EXCEPT ![t] =
                   [pc |-> "store", c |-> threads[t].c,
                    error_context |-> threads[t].error_context,
                    sliced |-> slice_last(error_history, max_history_size)]]
  /\ UNCHANGED <<error_history, max_history_size, now, call, ret, appended, logged, classified, tables>>

\* self.error_history = <the slice>
ThreadStore(t) ==
  /\ threads[t].pc = "store"
  /\ error_history' = threads[t].sliced
  /\ threads' = [threads EXCEPT ![t] =
                   [pc |-> "select", c |-> threads[t].c,
                    error_context |-> threads[t].error_context]]
  /\ UNCHANGED <<max_history_size, now, call, ret, appended, logged, classified, tables>>

\* The strategies of the kind are read and _select_best_strategy is called.
ThreadSelect(t) ==
  /\ threads[t].pc = "select"
  /\ threads' = [threads EXCEPT ![t] =
                   [pc |-> "log", c |-> @.c, error_context |-> @.error_context,
                    best_strategy |-> handled[@.c].best_strategy]]
  /\ UNCHANGED <<error_history, max_history_size, now, call, ret, appended, logged, classified, tables>>

\* logger.warning(...): the line is written; it is the log of the call once
\* the call has returned.
ThreadLog(t) ==
  /\ threads[t].pc = "log"
  /\ threads' = [threads EXCEPT ![t] =
                   [pc |-> "return", c |-> @.c, error_context |-> @.error_context,
                    best_strategy |-> @.best_strategy, logged |-> handled[@.c].logged]]
  /\ UNCHANGED <<error_history, max_history_size, now, call, ret, appended, logged, classified, tables>>

\* return best_strategy
ThreadReturn(t) ==
  /\ threads[t].pc = "return"
  /\ call' = [op |-> "handle_tool_failure", tool |-> threads[t].c.tool,
              error |-> threads[t].c.error, context |-> threads[t].c.context]
  /\ ret' = Returned(threads[t].best_strategy)
  /\ logged' = threads[t].logged
  /\ threads' = [threads EXCEPT ![t] = Idle]
  /\ UNCHANGED <<error_history, max_history_size, now, appended, classified, tables>>

NextThreads ==
  \E t \in ThreadIds :
    \/ ThreadCall(t)
    \/ ThreadAppend(t)
    \/ ThreadTest(t)
    \/ ThreadSlice(t)
    \/ ThreadStore(t)
    \/ ThreadSelect(t)
    \/ ThreadLog(t)
    \/ ThreadReturn(t)

SpecThreads == InitThreads /\ [][NextThreads]_vars

(***************************************************************************)
(* auto_adjust_parameters(tool, error_type, original_params)               *)
(***************************************************************************)
\* The generic adjustments of an error type; none for the other types.
generic_adjustments(error_type) ==
  IF error_type = TIMEOUT THEN [timeout |-> "60", threads |-> "5"]
  ELSE IF error_type = RATE_LIMITED THEN [delay |-> "2s", threads |-> "3"]
  ELSE IF error_type = RESOURCE_EXHAUSTED THEN [threads |-> "3", memory_limit |-> "1G"]
  ELSE << >>

\* The adjustments applied: those of the tool for the error type, the generic
\* ones if there are none.
adjustments_generic_only(tool, error_type) == generic_adjustments(error_type)

adjustments_of(tool, error_type) ==
  LET adjustments == dict_get(dict_get(parameter_adjustments, tool, << >>), error_type, << >>)
  IN  IF DOMAIN adjustments = {} THEN generic_adjustments(error_type) ELSE adjustments

\* d.update(other)
\* A variant that drops a key whose value is already the new one.
dict_update_unless_same(d, other) ==
  LET same == {k \in DOMAIN d \intersect DOMAIN other : d[k] = other[k]}
  IN  [k \in (DOMAIN d \union DOMAIN other) \ same |->
         IF k \in DOMAIN other THEN other[k] ELSE d[k]]

dict_update(d, other) ==
  [k \in DOMAIN d \union DOMAIN other |-> IF k \in DOMAIN other THEN other[k] ELSE d[k]]

\* What the call returns (adjusted_params), the caller's dict after the call
\* (original_params) and the delta table after the call
\* (parameter_adjustments): the update is made on a copy of the caller's
\* dict; and what it writes to the logger (line 549): the adjustments, as an
\* info record.
\* A variant that updates the table's own dict of the tool and error type
\* with the caller's parameters.
auto_adjust_parameters_into_table(tool, error_type, original_params) ==
  LET adjustments == adjustments_of(tool, error_type)
      own == dict_get(dict_get(parameter_adjustments, tool, << >>), error_type, << >>)
      adjusted_params == dict_update(adjustments, original_params)
  IN  [ adjusted_params |-> adjusted_params, original_params |-> original_params,
        parameter_adjustments |->
          IF DOMAIN own = {} THEN parameter_adjustments
          ELSE [parameter_adjustments EXCEPT ![tool][error_type] = adjusted_params],
        logged |-> << [ level |-> "info", status |-> "RECOVERY", tool |-> tool,
                        adjustments |-> adjustments ] >> ]

auto_adjust_parameters_in_place(tool, error_type, original_params) ==
  LET adjustments == adjustments_of(tool, error_type)
      adjusted_params == dict_update(original_params, adjustments)
  IN  [ adjusted_params |-> adjusted_params, original_params |-> adjusted_params,
        parameter_adjustments |-> parameter_adjustments,
        logged |-> << [ level |-> "info", status |-> "RECOVERY", tool |-> tool,
                        adjustments |-> adjustments ] >> ]

auto_adjust_parameters(tool, error_type, original_params) ==
  LET adjustments == adjustments_of(tool, error_type)
      copy == original_params
      adjusted_params == dict_update(copy, adjustments)
  IN  [ adjusted_params |-> adjusted_params, original_params |-> original_params,
        parameter_adjustments |-> parameter_adjustments,
        logged |-> << [ level |-> "info", status |-> "RECOVERY", tool |-> tool,
                        adjustments |-> adjustments ] >> ]

\* The tools of the table, and one that is not in it.
AdjustTools == DOMAIN initialize_parameter_adjustments \union {"sqlmap"}

OriginalParams ==
  { << >>, [target |-> "x"], [threads |-> "50"], [threads |-> "2", timeout |-> "90"],
    [target |-> "x", threads |-> "50", delay |-> "0", wordlist |-> "common.txt"] }

AdjustCalls ==
  { [op |-> "auto_adjust_parameters", tool |-> t, error_type |-> k, original_params |-> p] :
      t \in AdjustTools, k \in ErrorType, p \in OriginalParams }

InitAdjust ==
  /\ Constructed(MinHistorySize)
  /\ call \in AdjustCalls
  /\ ret = Pending

AutoAdjustParameters ==
  /\ call.op = "auto_adjust_parameters"
  /\ ret = Pending
  /\ LET r == auto_adjust_parameters(call.tool, call.error_type, call.original_params)
     IN  /\ ret' = Returned(r.adjusted_params)
         /\ call' = [call EXCEPT !.original_params = r.original_params]
         /\ logged' = r.logged
         /\ tables' = [tables EXCEPT !.parameter_adjustments = r.parameter_adjustments]
  /\ UNCHANGED <<error_history, max_history_size, now, threads, appended, classified>>

NextAdjust == AutoAdjustParameters

SpecAdjust == InitAdjust /\ [][NextAdjust]_vars

(***************************************************************************)
(* get_alternative_tool(failed_tool, context)                              *)
(***************************************************************************)
\* context.get(key) is truthy; the flags of the model are True, False or absent.
context_flag(context, key) == key \in DOMAIN context /\ context[key] = TRUE

\* The alternative is skipped under the context's requirements.
skipped(alt, context) ==
  \/ context_flag(context, "require_no_privileges") /\ alt \in {"nmap", "masscan"}
  \/ context_flag(context, "prefer_faster_tools") /\ alt \in {"amass", "w3af"}

get_alternative_tool_no_fallback(failed_tool, context) ==
  LET alternatives == dict_get(tool_alternatives, failed_tool, << >>)
      filtered_alternatives == SelectSeq(alternatives, LAMBDA alt : ~skipped(alt, context))
  IN  IF alternatives = << >> \/ filtered_alternatives = << >> THEN None
      ELSE filtered_alternatives[1]

get_alternative_tool(failed_tool, context) ==
  LET alternatives == dict_get(tool_alternatives, failed_tool, << >>)
      filtered == SelectSeq(alternatives, LAMBDA alt : ~skipped(alt, context))
      filtered_alternatives == IF filtered = << >> THEN alternatives ELSE filtered
  IN  IF alternatives = << >> THEN None
      ELSE IF filtered_alternatives # << >> THEN filtered_alternatives[1] ELSE None

\* The tools of the table, and one that is not in it.
FailedTools == DOMAIN initialize_tool_alternatives \union {"hydra"}

ContextFlags == {"require_no_privileges", "prefer_faster_tools"}

\* Each flag True, False or absent.
AlternativeContexts == UNION {[keys -> BOOLEAN] : keys \in SUBSET ContextFlags}

AlternativeCalls ==
  { [op |-> "get_alternative_tool", failed_tool |-> t, context |-> c] :
      t \in FailedTools, c \in AlternativeContexts }

InitAlternative ==
  /\ Constructed(MinHistorySize)
  /\ call \in AlternativeCalls
  /\ ret = Pending

GetAlternativeTool ==
  /\ call.op = "get_alternative_tool"
  /\ ret = Pending
  /\ ret' = Returned(get_alternative_tool(call.failed_tool, call.context))
  /\ logged' = << >>
  /\ UNCHANGED <<error_history, max_history_size, now, call, threads, appended, classified, tables>>

NextAlternative == GetAlternativeTool

SpecAlternative == InitAlternative /\ [][NextAlternative]_vars

(***************************************************************************)
(* escalate_to_human(context, urgency="medium")                            *)
(***************************************************************************)
\* _get_human_suggestions(context)
get_human_suggestions_no_default(context) ==
  IF context.error_type = PERMISSION_DENIED
    THEN << "Run the command with sudo privileges", "Check file/directory permissions",
            "Verify user is in required groups" >>
  ELSE IF context.error_type = TOOL_NOT_FOUND
    THEN << "Install " \o context.tool_name \o " using package manager",
            "Check if tool is in PATH", "Verify tool installation" >>
  ELSE IF context.error_type = NETWORK_UNREACHABLE
    THEN << "Check network connectivity", "Verify target is accessible",
            "Check firewall rules" >>
  ELSE IF context.error_type = RATE_LIMITED
    THEN << "Wait before retrying", "Use slower scan rates", "Check API rate limits" >>
  ELSE << >>

get_human_suggestions(context) ==
  IF context.error_type = PERMISSION_DENIED
    THEN << "Run the command with sudo privileges", "Check file/directory permissions",
            "Verify user is in required groups" >>
  ELSE IF context.error_type = TOOL_NOT_FOUND
    THEN << "Install " \o context.tool_name \o " using package manager",
            "Check if tool is in PATH", "Verify tool installation" >>
  ELSE IF context.error_type = NETWORK_UNREACHABLE
    THEN << "Check network connectivity", "Verify target is accessible",
            "Check firewall rules" >>
  ELSE IF context.error_type = RATE_LIMITED
    THEN << "Wait before retrying", "Use slower scan rates", "Check API rate limits" >>
  ELSE << "Review error details and logs" >>

\* [e.error_message for e in context.previous_errors[-5:]]
recent_errors_first_five(context) ==
  LET first == IF Len(context.previous_errors) > 5
                 THEN SubSeq(context.previous_errors, 1, 5)
                 ELSE context.previous_errors
  IN  [i \in 1..Len(first) |-> first[i].error_message]

recent_errors_of(context) ==
  LET last == slice_last(context.previous_errors, 5)
  IN  [i \in 1..Len(last) |-> last[i].error_message]

\* What the call returns (escalation_data), the context after the call, and
\* what it writes to the logger (lines 594-596): the critical card, the
\* header and the JSON text of escalation_data, given by the data it encodes.
escalate_to_human(context, urgency) ==
  LET escalation_data ==
        [ timestamp |-> isoformat(context.timestamp),
          tool |-> context.tool_name,
          target |-> context.target,
          error_type |-> context.error_type,
          error_message |-> context.error_message,
          attempt_count |-> context.attempt_count,
          urgency |-> urgency,
          suggested_actions |-> get_human_suggestions(context),
          context |-> [ parameters |-> context.parameters,
                        system_resources |-> context.system_resources,
                        recent_errors |-> recent_errors_of(context) ] ]
  IN  [ escalation_data |-> escalation_data,
        context |-> context,
        logged |-> << [ level |-> "error", card |-> "CRITICAL", tool |-> context.tool_name,
                        message |-> context.error_message,
                        detail |-> "HUMAN ESCALATION REQUIRED" ],
                      [ level |-> "error", text |-> "ESCALATION DETAILS" ],
                      [ level |-> "error", escalation_data |-> escalation_data ] >> ]

\* The contexts escalated: every kind, for each tool, on a host whose readings
\* succeeded or failed, with up to MaxPrevious previous errors, each with a
\* message of its own.
MaxPrevious == 7

PreviousErrors(tool, n) ==
  [i \in 1..n |-> ErrorContext(tool, "10.0.0.1", << >>, TIMEOUT, "failure " \o ToString(i),
                               i, 0, get_system_resources(HostUp))]

EscalatedContexts ==
  { [ErrorContext(t, "10.0.0.1", [threads |-> "50"], k, "reported failure", n + 1, 1800,
                  get_system_resources(h))
       EXCEPT !.previous_errors = PreviousErrors(t, n)] :
      t \in Tools, k \in ErrorType, h \in {HostUp, HostDown}, n \in 0..MaxPrevious }

\* With an urgency, or without one (the default applies).
EscalateCalls ==
  { [op |-> "escalate_to_human", context |-> c, urgency |-> u] :
      c \in EscalatedContexts, u \in {"low", "high"} }
  \union
  { [op |-> "escalate_to_human", context |-> c] : c \in EscalatedContexts }

InitEscalate ==
  /\ Constructed(MinHistorySize)
  /\ call \in EscalateCalls
  /\ ret = Pending

EscalateToHuman ==
  /\ call.op = "escalate_to_human"
  /\ ret = Pending
  /\ LET r == escalate_to_human(call.context, dict_get(call, "urgency", "medium"))
     IN  /\ ret' = Returned(r.escalation_data)
         /\ call' = [call EXCEPT !.context = r.context]
         /\ logged' = r.logged
  /\ UNCHANGED <<error_history, max_history_size, now, threads, appended, classified, tables>>

NextEscalate == EscalateToHuman

SpecEscalate == InitEscalate /\ [][NextEscalate]_vars

(***************************************************************************)
(* The handler on a host whose readings may fail: at each call psutil      *)
(* either answers or raises.  The ledger is built with any capacity from   *)
(* MinHistorySize to MaxHistorySize.                                       *)
(***************************************************************************)
Hosts == {HostUp, HostDown}

Raises(exception) == [status |-> "raised", exception |-> exception]

HostErrors ==
  { Exc("Exception", "Connection timed out"),
    Exc("Exception", "rate limit exceeded (429)") }

\* First and exhausted attempts of two failures of gobuster, and the call
\* whose context carries nothing.
HostCalls ==
  { c \in HandleCalls :
      /\ c.tool = "gobuster"
      /\ \/ c.context = << >>
         \/ /\ c.error \in HostErrors
            /\ c.context.attempt_count \in {1, MaxAttempt} }

\* handle_tool_failure selects before it records, and records nothing when no
\* strategy is left.
handle_tool_failure_select_first(history, c, timestamp, host) ==
  LET error_context == [error_context_at(c, timestamp)
                          EXCEPT !.system_resources = get_system_resources(host)]
      best_strategy == handled[c].best_strategy
  IN  [ raised |-> FALSE,
        error_history |-> IF best_strategy.max_attempts >= error_context.attempt_count
                            THEN add_to_history(history, error_context)
                            ELSE history,
        value |-> best_strategy,
        logged |-> handled[c].logged ]

\* handle_tool_failure for call c on the given host with the given ledger:
\* the ledger it leaves, the strategy it returns and what it logs.  The
\* ErrorContext is built first (lines 475-485); an exception out of
\* _get_system_resources would leave the call at line 484, before the append.
handle_tool_failure(history, c, timestamp, host) ==
  LET system_resources == get_system_resources(host)
  IN  IF "raised" \in DOMAIN system_resources
        THEN [ raised |-> TRUE, exception |-> system_resources.raised,
               error_history |-> history, logged |-> << >> ]
        ELSE LET error_context == [error_context_at(c, timestamp)
                                     EXCEPT !.system_resources = system_resources]
             IN  [ raised |-> FALSE,
                   error_history |-> add_to_history(history, error_context),
                   value |-> handled[c].best_strategy,
                   logged |-> handled[c].logged ]

InitHost ==
  /\ \E capacity \in MinHistorySize..MaxHistorySize : Constructed(capacity)
  /\ call = [op |-> "none"]
  /\ ret = NoCall

\* call.host is the host as the call found it.
HostHandleToolFailure ==
  \E c \in HostCalls, host \in Hosts :
    LET r == handle_tool_failure(error_history, c, now, host)
    IN  /\ error_history' = r.error_history
        /\ call' = [op |-> "handle_tool_failure", tool |-> c.tool, error |-> c.error,
                    context |-> c.context, host |-> host]
        /\ ret' = IF r.raised THEN Raises(r.exception) ELSE Returned(r.value)
        /\ logged' = r.logged
        /\ UNCHANGED <<max_history_size, now, threads, appended, classified, tables>>

NextHost == HostHandleToolFailure

SpecHost == InitHost /\ [][NextHost]_vars

(***************************************************************************)
(* The classifier in use: classify_error is called on the module's handler *)
(* at any time, before, between and after reported failures.               *)
(***************************************************************************)
\* The handler as a method sees it.
self == [error_history |-> error_history, max_history_size |-> max_history_size]

\* classify_error as a method that falls back on the kind of the last
\* incident of the ledger.
bound_classify_error_by_ledger(handler, error_message, exception) ==
  LET error_type == classify_error(error_message, exception)
  IN  IF error_type = UNKNOWN /\ handler.error_history # << >>
        THEN handler.error_history[Len(handler.error_history)].error_type
        ELSE error_type

\* self.classify_error(error_message, exception): of the handler the method
\* reads self.error_patterns alone.
bound_classify_error(handler, error_message, exception) ==
  classify_error(error_message, exception)

PureMessages == {"Connection timed out", "segmentation fault"}

PureExceptions == {None, "PermissionError"}

PureCalls == { c \in LedgerCalls : c.tool = "nmap" }

InitPure ==
  /\ \E capacity \in MinHistorySize..MaxHistorySize : Constructed(capacity)
  /\ call = [op |-> "none"]
  /\ ret = NoCall

PureClassifyError ==
  \E error_message \in PureMessages, exception \in PureExceptions :
    LET error_type == bound_classify_error(self, error_message, exception)
    IN  /\ call' = [op |-> "classify_error", error_message |-> error_message,
                    exception |-> exception]
        /\ ret' = Returned(error_type)
        /\ classified' = classified \union {Classified(error_message, exception, error_type)}
        /\ logged' = << >>
        /\ UNCHANGED <<error_history, max_history_size, now, threads, appended, tables>>

PureHandleToolFailure ==
  \E c \in PureCalls :
    /\ error_history' = add_to_history(error_history, error_context_at(c, now))
    /\ call' = [op |-> "handle_tool_failure", tool |-> c.tool, error |-> c.error,
                context |-> c.context]
    /\ ret' = Returned(handled[c].best_strategy)
    /\ logged' = handled[c].logged
    /\ UNCHANGED <<max_history_size, now, threads, appended, classified, tables>>

NextPure == PureClassifyError \/ PureHandleToolFailure

SpecPure == InitPure /\ [][NextPure]_vars

(***************************************************************************)
(* Statistics read while a failure is reported: get_error_statistics runs  *)
(* in one thread (the reader) and handle_tool_failure in another (the      *)
(* writer), and neither takes a lock.  The reader may be suspended before  *)
(* each iteration of its loop, before its return statement and between the *)
(* reading of the ledger's length and the return, the writer after it has  *)
(* read the clock for the incident's timestamp,                            *)
(* after the append, after the test of the length, after the truncation,   *)
(* after the selection and after the line it logs.  The for loop           *)
(* iterates the list object that self.error_history named when the loop    *)
(* began: an append to that object is seen by the loop, and the truncation *)
(* binds self.error_history to a new list, which the loop does not see.    *)
(* The clock advances at any time.                                         *)
(***************************************************************************)
EmptyCounts == [error_counts |-> << >>, tool_errors |-> << >>, recent_errors |-> << >>]

\* The body of the loop for one incident.
statistics_step(error, clock, acc) == statistics_loop(<<error>>, 1, <<clock>>, acc)

\* The dict of the return statement: total_errors is the length that was
\* read of the ledger, the counts are those of the loop.
statistics_result(total_errors, acc) ==
  [ total_errors |-> total_errors,
    error_counts_by_type |-> acc.error_counts,
    error_counts_by_tool |-> acc.tool_errors,
    recent_errors_count |-> Len(acc.recent_errors),
    recent_errors |-> slice_last(acc.recent_errors, 10) ]

InitSnapshot ==
  /\ \E capacity \in MinHistorySize..MaxHistorySize :
       /\ error_history = << >>
       /\ max_history_size = capacity
  /\ now = 0
  /\ threads = [reader |-> Idle, writer |-> Idle]
  /\ appended = << >>
  /\ logged = << >>
  /\ classified = {}
  /\ tables = ConstructedTables
  /\ call = [op |-> "none"]
  /\ ret = NoCall

\* get_error_statistics is entered: an empty ledger is answered at once,
\* otherwise the loop begins on the list that is the ledger now.
ReaderEnter ==
  /\ threads.reader.pc = "idle"
  /\ IF error_history = << >>
       THEN /\ call' = [op |-> "get_error_statistics"]
            /\ ret' = Returned([total_errors |-> 0])
            /\ logged' = << >>
            /\ UNCHANGED threads
       ELSE /\ threads' = [threads EXCEPT !.reader =
                             [pc |-> "loop", list |-> error_history, bound |-> TRUE,
                              i |-> 1, acc |-> EmptyCounts]]
            /\ UNCHANGED <<call, ret, logged>>
  /\ UNCHANGED <<error_history, max_history_size, now, appended, classified, tables>>

\* One iteration of the loop, which reads the clock for its incident, or the
\* end of the loop when the list has no next incident.
ReaderIterate ==
  /\ threads.reader.pc = "loop"
  /\ LET r == threads.reader
     IN  threads' = [threads EXCEPT !.reader =
           IF r.i > Len(r.list)
             THEN [pc |-> "length", acc |-> r.acc]
             ELSE [r EXCEPT !.i = r.i + 1,
                            !.acc = statistics_step(r.list[r.i], now, r.acc)]]
  /\ UNCHANGED <<error_history, max_history_size, now, call, ret, appended, logged, classified, tables>>

\* The return statement evaluates len(self.error_history), of the ledger as
\* it is then.
ReaderLength ==
  /\ threads.reader.pc = "length"
  /\ threads' = [threads EXCEPT !.reader =
                   [pc |-> "return", acc |-> @.acc, total_errors |-> Len(error_history)]]
  /\ UNCHANGED <<error_history, max_history_size, now, call, ret, appended, logged, classified, tables>>

\* The rest of the return statement: the dict is built of the length that was
\* read and of the counts of the loop, and returned.
ReaderReturn ==
  /\ threads.reader.pc = "return"
  /\ call' = [op |-> "get_error_statistics"]
  /\ ret' = Returned(statistics_result(threads.reader.total_errors, threads.reader.acc))
  /\ logged' = << >>
  /\ threads' = [threads EXCEPT !.reader = Idle]
  /\ UNCHANGED <<error_history, max_history_size, now, appended, classified, tables>>

\* handle_tool_failure is entered: the error is classified and the
\* ErrorContext built, its timestamp being the clock as it is read then.
WriterCall ==
  /\ threads.writer.pc = "idle"
  /\ Len(appended) < MaxAppends
  /\ \E c \in ThreadCalls :
       threads' = [threads EXCEPT !.writer =
                     [pc |-> "append", c |-> c, error_context |-> error_context_at(c, now)]]
  /\ UNCHANGED <<error_history, max_history_size, now, call, ret, appended, logged, classified, tables>>

\* self.error_history.append(error_context): the list the reader iterates
\* grows with it while it is still the ledger.
WriterAppend ==
  /\ threads.writer.pc = "append"
  /\ LET error_context == threads.writer.error_context
     IN  /\ error_history' = Append(error_history, error_context)
         /\ appended' = Append(appended, error_context)
         /\ threads' = [threads EXCEPT
              !.writer = [pc |-> "test", c |-> @.c],
              !.reader = IF @.pc = "loop" /\ @.bound
                           THEN [@ EXCEPT !.list = Append(@, error_context)]
                           ELSE @]
  /\ UNCHANGED <<max_history_size, now, call, ret, logged, classified, tables>>

\* if len(self.error_history) > self.max_history_size
WriterTest ==
  /\ threads.writer.pc = "test"
  /\ threads' = [threads EXCEPT !.writer.pc =
                   IF Len(error_history) > max_history_size THEN "truncate" ELSE "select"]
  /\ UNCHANGED <<error_history, max_history_size, now, call, ret, appended, logged, classified, tables>>

\* self.error_history = self.error_history[-self.max_history_size:], which
\* binds self.error_history to a new list; the writer is the only thread that
\* writes the ledger, so the slice and the assignment are one step for the
\* reader.  _add_to_history returns.
WriterTruncate ==
  /\ threads.writer.pc = "truncate"
  /\ error_history' = slice_last(error_history, max_history_size)
  /\ threads' = [threads EXCEPT
       !.writer.pc = "select",
       !.reader = IF @.pc = "loop" THEN [@ EXCEPT !.bound = FALSE] ELSE @]
  /\ UNCHANGED <<max_history_size, now, call, ret, appended, logged, classified, tables>>

\* The strategies of the kind are read and _select_best_strategy is called.
WriterSelect ==
  /\ threads.writer.pc = "select"
  /\ threads' = [threads EXCEPT !.writer =
                   [pc |-> "log", c |-> @.c, best_strategy |-> handled[@.c].best_strategy]]
  /\ UNCHANGED <<error_history, max_history_size, now, call, ret, appended, logged, classified, tables>>

\* logger.warning(...): the line is written; it is the log of the call once
\* the call has returned.
WriterLog ==
  /\ threads.writer.pc = "log"
  /\ threads' = [threads EXCEPT !.writer =
                   [pc |-> "return", c |-> @.c, best_strategy |-> @.best_strategy,
                    logged |-> handled[@.c].logged]]
  /\ UNCHANGED <<error_history, max_history_size, now, call, ret, appended, logged, classified, tables>>

\* return best_strategy
WriterReturn ==
  /\ threads.writer.pc = "return"
  /\ LET w == threads.writer
     IN  /\ call' = [op |-> "handle_tool_failure", tool |-> w.c.tool, error |-> w.c.error,
                     context |-> w.c.context]
         /\ ret' = Returned(w.best_strategy)
         /\ logged' = w.logged
  /\ threads' = [threads EXCEPT !.writer = Idle]
  /\ UNCHANGED <<error_history, max_history_size, now, appended, classified, tables>>

NextSnapshot ==
  \/ ReaderEnter
  \/ ReaderIterate
  \/ ReaderLength
  \/ ReaderReturn
  \/ WriterCall
  \/ WriterAppend
  \/ WriterTest
  \/ WriterTruncate
  \/ WriterSelect
  \/ WriterLog
  \/ WriterReturn
  \/ Tick

SpecSnapshot == InitSnapshot /\ [][NextSnapshot]_vars

(***************************************************************************)
(* A ledger of the module's own capacity that fills over two hours: one    *)
(* failure is reported again and again while the clock advances, and       *)
(* statistics are read at any time.                                        *)
(***************************************************************************)
DefaultHistorySize == 1000

MaxReports == 12

ReportedCalls == { c \in ThreadCalls : c.tool = "nmap" }

InitRecent ==
  /\ Constructed(DefaultHistorySize)
  /\ call = [op |-> "none"]
  /\ ret = NoCall

ReportFailure ==
  \E c \in ReportedCalls :
    /\ Len(error_history) < MaxReports
    /\ error_history' = add_to_history(error_history, error_context_at(c, now))
    /\ call' = [op |-> "handle_tool_failure", tool |-> c.tool, error |-> c.error,
                context |-> c.context]
    /\ ret' = Returned(handled[c].best_strategy)
    /\ logged' = handled[c].logged
    /\ UNCHANGED <<max_history_size, now, threads, appended, classified, tables>>

NextRecent == ReportFailure \/ GetErrorStatistics \/ Tick

SpecRecent == InitRecent /\ [][NextRecent]_vars

(***************************************************************************)
(* Every public method in use on one handler: calls of classify_error,     *)
(* handle_tool_failure, auto_adjust_parameters, get_alternative_tool,      *)
(* escalate_to_human and get_error_statistics are made one after the       *)
(* other, in any order.                                                    *)
(***************************************************************************)
AnyCalls ==
  { [op |-> "classify_error", error_message |-> m, exception |-> x] :
      m \in PureMessages, x \in PureExceptions }
  \union
  { [op |-> "handle_tool_failure", tool |-> c.tool, error |-> c.error,
     context |-> c.context] : c \in PureCalls }
  \union
  { c \in AdjustCalls :
      /\ c.tool \in {"nmap", "sqlmap"}
      /\ c.error_type \in {TIMEOUT, UNKNOWN}
      /\ c.original_params \in {<< >>, [threads |-> "50"]} }
  \union
  { c \in AlternativeCalls :
      /\ c.failed_tool \in {"nmap", "hydra"}
      /\ c.context \in {<< >>, [require_no_privileges |-> TRUE]} }
  \union
  { c \in EscalateCalls :
      /\ "urgency" \notin DOMAIN c
      /\ c.context.tool_name = "nmap"
      /\ c.context.error_type = TIMEOUT
      /\ Len(c.context.previous_errors) <= 1
      /\ "cpu_percent" \in DOMAIN c.context.system_resources }
  \union
  { [op |-> "get_error_statistics"] }

InitAny ==
  /\ Constructed(MinHistorySize)
  /\ call = [op |-> "none"]
  /\ ret = NoCall

\* The next call is made.
EnterCall ==
  /\ ret # Pending
  /\ call' \in AnyCalls
  /\ ret' = Pending
  /\ UNCHANGED <<error_history, max_history_size, now, threads, appended, logged,
                 classified, tables>>

PendingHandleToolFailure ==
  /\ call.op = "handle_tool_failure"
  /\ ret = Pending
  /\ LET c == [tool |-> call.tool, error |-> call.error, context |-> call.context]
     IN  /\ error_history' = add_to_history(error_history, error_context_at(c, now))
         /\ ret' = Returned(handled[c].best_strategy)
         /\ logged' = handled[c].logged
  /\ UNCHANGED <<max_history_size, now, call, threads, appended, classified, tables>>

PendingGetErrorStatistics ==
  /\ call.op = "get_error_statistics"
  /\ ret = Pending
  /\ \E clocks \in ClockReadings(now, Len(error_history)) :
       /\ ret' = Returned(get_error_statistics(error_history, clocks))
       /\ now' = ClockAfter(now, clocks)
  /\ logged' = << >>
  /\ UNCHANGED <<error_history, max_history_size, call, threads, appended,
                 classified, tables>>

NextAny ==
  \/ EnterCall
  \/ ClassifyError
  \/ PendingHandleToolFailure
  \/ AutoAdjustParameters
  \/ GetAlternativeTool
  \/ EscalateToHuman
  \/ PendingGetErrorStatistics

SpecAny == InitAny /\ [][NextAny]_vars

(***************************************************************************)
(* The incidents of the ledger handed to the other methods: an incident is *)
(* escalated, its parameters are adjusted, an alternative is asked for its *)
(* tool.  The ledger holds the objects themselves, so what a method does   *)
(* to the ErrorContext or to the parameters dict it is given is done to    *)
(* the incident of the ledger.                                             *)
(***************************************************************************)
InitIncidents ==
  /\ \E capacity \in MinHistorySize..MaxHistorySize : Constructed(capacity)
  /\ call = [op |-> "none"]
  /\ ret = NoCall

ReportIncident ==
  \E c \in ThreadCalls :
    /\ Len(appended) < MaxAppends
    /\ error_history' = add_to_history(error_history, error_context_at(c, now))
    /\ appended' = Append(appended, error_context_at(c, now))
    /\ call' = [op |-> "handle_tool_failure", tool |-> c.tool, error |-> c.error,
                context |-> c.context]
    /\ ret' = Returned(handled[c].best_strategy)
    /\ logged' = handled[c].logged
    /\ UNCHANGED <<max_history_size, now, threads, classified, tables>>

\* escalate_to_human(incident)
EscalateIncident ==
  \E i \in DOMAIN error_history :
    LET r == escalate_to_human(error_history[i], "medium")
    IN  /\ error_history' = [error_history EXCEPT ![i] = r.context]
        /\ call' = [op |-> "escalate_to_human", context |-> r.context]
        /\ ret' = Returned(r.escalation_data)
        /\ logged' = r.logged
        /\ UNCHANGED <<max_history_size, now, threads, appended, classified, tables>>

\* auto_adjust_parameters(incident.tool_name, incident.error_type, incident.parameters)
AdjustIncident ==
  \E i \in DOMAIN error_history :
    LET incident == error_history[i]
        r == auto_adjust_parameters(incident.tool_name, incident.error_type,
                                    incident.parameters)
    IN  /\ error_history' = [error_history EXCEPT ![i].parameters = r.original_params]
        /\ call' = [op |-> "auto_adjust_parameters", tool |-> incident.tool_name,
                    error_type |-> incident.error_type,
                    original_params |-> r.original_params]
        /\ ret' = Returned(r.adjusted_params)
        /\ logged' = r.logged
        /\ tables' = [tables EXCEPT !.parameter_adjustments = r.parameter_adjustments]
        /\ UNCHANGED <<max_history_size, now, threads, appended, classified>>

\* get_alternative_tool(incident.tool_name, {})
AlternativeForIncident ==
  \E i \in DOMAIN error_history :
    /\ call' = [op |-> "get_alternative_tool", failed_tool |-> error_history[i].tool_name,
                context |-> << >>]
    /\ ret' = Returned(get_alternative_tool(error_history[i].tool_name, << >>))
    /\ logged' = << >>
    /\ UNCHANGED <<error_history, max_history_size, now, threads, appended, classified,
                   tables>>

NextIncidents ==
  \/ ReportIncident
  \/ EscalateIncident
  \/ AdjustIncident
  \/ AlternativeForIncident
  \/ GetErrorStatistics

SpecIncidents == InitIncidents /\ [][NextIncidents]_vars

(***************************************************************************)
(* What the claims speak of.                                               *)
(***************************************************************************)
Last(h) == h[Len(h)]

\* The actions by which recovery goes on without a human.
AutonomousActions ==
  { RETRY_WITH_BACKOFF, RETRY_WITH_REDUCED_SCOPE, ADJUST_PARAMETERS,
    SWITCH_TO_ALTERNATIVE_TOOL, GRACEFUL_DEGRADATION }

\* The escalation that says that every strategy is exhausted for a tool.
IsExhaustedEscalation(strategy, tool) ==
  /\ strategy.action = ESCALATE_TO_HUMAN
  /\ DOMAIN strategy.parameters = {"message", "urgency"}
  /\ strategy.parameters.message = "All recovery strategies exhausted for " \o tool
  /\ strategy.parameters.urgency = "high"

SetMax(S) == CHOOSE x \in S : \A y \in S : y <= x

\* The largest max_attempts declared for a kind, and for the whole catalog.
KindMaxAttempts(kind) ==
  SetMax({initialize_recovery_strategies[kind][i].max_attempts :
            i \in DOMAIN initialize_recovery_strategies[kind]})

CatalogMaxAttempts == SetMax({KindMaxAttempts(k) : k \in ErrorType})

SelectReturned == call.op = "select_best_strategy" /\ ret.status = "returned"
ClassifyReturned == call.op = "classify_error" /\ ret.status = "returned"
HandleReturned == call.op = "handle_tool_failure" /\ ret.status = "returned"

\* The positions of the strategies of a select call that pass the attempt filter.
ViablePositions ==
  {i \in DOMAIN call.strategies :
     call.strategies[i].max_attempts >= call.context.attempt_count}

\* C1: for a non-empty list and attempt_count >= 1 the selector returns a
\* decision, which is a member of the list with max_attempts >= attempt_count
\* when there is one, and the exhausted escalation exactly when there is none.
C1_SelectorReturnsViableOrExhausted ==
  (call.op = "select_best_strategy" /\ ret.status # "pending") =>
    /\ ret.status = "returned"
    /\ ret.value.action \in RecoveryAction
    /\ IF ViablePositions # {}
         THEN /\ \E i \in ViablePositions : ret.value = call.strategies[i]
              /\ ~IsExhaustedEscalation(ret.value, call.context.tool_name)
         ELSE IsExhaustedEscalation(ret.value, call.context.tool_name)

\* A list whose first strategy is out of attempts and a later one is not: the
\* later one is returned.
C1_Witness ==
  /\ SelectReturned
  /\ \E i, j \in DOMAIN call.strategies :
       /\ i < j
       /\ i \notin ViablePositions
       /\ j \in ViablePositions
       /\ ret.value = call.strategies[j]

\* C2: when attempt_count exceeds the max_attempts of every candidate, the
\* selector returns (as a value) the strategy escalate_to_human with urgency
\* high, the message "All recovery strategies exhausted for <tool>",
\* success_probability 0.9 and estimated_time 300.
C2_ExhaustionStrategy ==
  (call.op = "select_best_strategy" /\ ret.status # "pending"
     /\ \A i \in DOMAIN call.strategies :
          call.context.attempt_count > call.strategies[i].max_attempts) =>
    /\ ret.status = "returned"
    /\ ret.value.action = ESCALATE_TO_HUMAN
    /\ ret.value.parameters.urgency = "high"
    /\ ret.value.parameters.message
         = "All recovery strategies exhausted for " \o call.context.tool_name
    /\ ret.value.success_probability = 9
    /\ ret.value.estimated_time = 300

C2_Witness ==
  /\ SelectReturned
  /\ ViablePositions = {}
  /\ call.context.tool_name = "gobuster"
  /\ ret.value.parameters.message = "All recovery strategies exhausted for gobuster"

\* C6: among the strategies that pass the attempt filter the selector returns
\* one of maximum score, and of those the one that stands first in the list.
C6_SelectorReturnsFirstMaximum ==
  (SelectReturned /\ ViablePositions # {}) =>
    LET a == call.context.attempt_count
        best == {i \in ViablePositions :
                   \A j \in ViablePositions :
                     ~FGreater(score_of(call.strategies[j], a),
                               score_of(call.strategies[i], a))}
        first == CHOOSE i \in best : \A k \in best : i <= k
    IN  /\ best # {}
        /\ ret.value = call.strategies[first]

\* Two different viable strategies of the same, maximum, score: the earlier
\* one is returned.
C6_Witness ==
  /\ SelectReturned
  /\ \E i, j \in ViablePositions :
       /\ i < j
       /\ call.strategies[i] # call.strategies[j]
       /\ FEqual(score_of(call.strategies[i], call.context.attempt_count),
                 score_of(call.strategies[j], call.context.attempt_count))
       /\ \A k \in ViablePositions :
            ~FGreater(score_of(call.strategies[k], call.context.attempt_count),
                      score_of(call.strategies[i], call.context.attempt_count))
       /\ ret.value = call.strategies[i]

\* The incident handle_tool_failure recorded for the last call.
Incident == Last(error_history)

\* C3: for every kind the exhausted escalation is reached, namely by every
\* call whose attempt_count is above the kind's largest max_attempts; and once
\* a call has returned it, a later call of the same kind and tool with a larger
\* attempt_count returns it again, and no autonomous action.
C3_ExhaustedReachedAndAbsorbing ==
  /\ [](HandleReturned =>
          (Incident.attempt_count > KindMaxAttempts(Incident.error_type)
             => IsExhaustedEscalation(ret.value, call.tool)))
  /\ [][ ( /\ HandleReturned
           /\ HandleReturned'
           /\ call'.tool = call.tool
           /\ Incident'.error_type = Incident.error_type
           /\ Incident'.attempt_count > Incident.attempt_count
           /\ IsExhaustedEscalation(ret.value, call.tool) )
         => ( /\ IsExhaustedEscalation(ret'.value, call'.tool)
              /\ ret'.value.action \notin AutonomousActions ) ]_vars

\* A call two attempts above the kind's largest max_attempts (so a call after
\* the one that first found the kind exhausted) has returned the escalation.
C3_Witness ==
  /\ HandleReturned
  /\ Incident.attempt_count >= KindMaxAttempts(Incident.error_type) + 2
  /\ IsExhaustedEscalation(ret.value, call.tool)

\* C4: in calls for the same tool and target with attempt_count growing by
\* one, the kinds free, once a call has returned escalate_to_human the next one
\* returns no retry, adjust, switch or degradation action.
C4_EscalationIsTerminal ==
  [][ ( /\ HandleReturned
        /\ HandleReturned'
        /\ call'.tool = call.tool
        /\ Incident'.target = Incident.target
        /\ Incident'.attempt_count = Incident.attempt_count + 1
        /\ ret.value.action = ESCALATE_TO_HUMAN )
      => ret'.value.action \notin AutonomousActions ]_vars

\* C5: whatever the kind, a call with attempt_count 6, one more than the
\* largest max_attempts of the catalog, or more returns escalate_to_human.
C5_EscalatedByAttemptSix ==
  /\ CatalogMaxAttempts + 1 = 6
  /\ HandleReturned =>
       (Incident.attempt_count >= 6 => ret.value.action = ESCALATE_TO_HUMAN)

\* The sixth rate-limited failure in a row is escalated.
C5_Witness ==
  /\ HandleReturned
  /\ Incident.error_type = RATE_LIMITED
  /\ Incident.attempt_count = 6
  /\ ret.value.action = ESCALATE_TO_HUMAN

\* The exception classes the classifier maps, in the order it tests them.
MappedClasses ==
  << [cls |-> "TimeoutError", error_type |-> TIMEOUT],
     [cls |-> "PermissionError", error_type |-> PERMISSION_DENIED],
     [cls |-> "ConnectionError", error_type |-> NETWORK_UNREACHABLE],
     [cls |-> "FileNotFoundError", error_type |-> TOOL_NOT_FOUND] >>

\* The exception of the classify call is of none of the mapped classes.
NoMappedTag ==
  \/ call.exception = None
  \/ \A i \in DOMAIN MappedClasses :
       MappedClasses[i].cls \notin ExceptionBases[call.exception]

\* The rules of the declared table one of whose literals occurs in the
\* lower-cased message.
MatchingRules(message) ==
  {i \in DOMAIN initialize_error_patterns :
     \E k \in DOMAIN initialize_error_patterns[i].alts :
       Occurs(initialize_error_patterns[i].alts[k], Lower(message))}

\* C7: an exception of timeout, permission, connectivity or not-found kind
\* decides the result whatever the message; otherwise the result is the one
\* the message gets without any exception.
C7_ExceptionTagFirst ==
  ClassifyReturned =>
    /\ \A i \in DOMAIN MappedClasses :
         (call.exception # None /\ MappedClasses[i].cls \in ExceptionBases[call.exception])
           => ret.value = MappedClasses[i].error_type
    /\ NoMappedTag => ret.value = classify_error(call.error_message, None)

\* A timeout exception whose message reads as a permission failure.
C7_Witness ==
  /\ ClassifyReturned
  /\ call.exception = "TimeoutError"
  /\ call.error_message = "Permission denied: /etc/x"
  /\ MatchingRules(call.error_message) # {}
  /\ ret.value = TIMEOUT

\* C8: without a mapped exception the result is the kind of the first rule,
\* in declaration order, that matches the lower-cased message, and unknown
\* when no rule matches.
C8_FirstDeclaredRuleWins ==
  (ClassifyReturned /\ NoMappedTag) =>
    LET matching == MatchingRules(call.error_message)
    IN  IF matching = {} THEN ret.value = UNKNOWN
        ELSE ret.value =
               initialize_error_patterns[
                 CHOOSE i \in matching : \A j \in matching : i <= j].error_type

\* A message that matches rules of two kinds has the kind of the earlier rule.
C8_Witness ==
  /\ ClassifyReturned
  /\ NoMappedTag
  /\ \E i, j \in MatchingRules(call.error_message) :
       /\ i < j
       /\ initialize_error_patterns[i].error_type
            # initialize_error_patterns[j].error_type
       /\ \A k \in MatchingRules(call.error_message) : i <= k
       /\ ret.value = initialize_error_patterns[i].error_type

\* C9: a message that is a literal of the pattern table, in lower case, upper
\* case or capitalized, and comes with no exception, is classified as the kind
\* the table gives for that literal.
C9_DocumentedStringsClassified ==
  (ClassifyReturned /\ call.exception = None) =>
    \A i \in DOMAIN initialize_error_patterns :
      \A k \in DOMAIN initialize_error_patterns[i].alts :
        LET literal == initialize_error_patterns[i].alts[k]
        IN  call.error_message \in {literal, Upper(literal), Capitalize(literal)}
              => ret.value = initialize_error_patterns[i].error_type

\* C10: classify_error returns one of the eleven ErrorType values for every
\* message and exception, and unknown for a text that matches no rule.
C10_ClassificationTotal ==
  /\ Cardinality(ErrorType) = 11
  /\ (call.op = "classify_error" /\ ret.status # "pending") =>
       /\ ret.status = "returned"
       /\ ret.value \in ErrorType
       /\ (NoMappedTag /\ MatchingRules(call.error_message) = {})
            => ret.value = UNKNOWN

\* The empty message, with no exception, is unknown.
C10_Witness ==
  /\ ClassifyReturned
  /\ call.error_message = ""
  /\ call.exception = None
  /\ ret.value = UNKNOWN

(***************************************************************************)
(* The ledger and its statistics.                                          *)
(***************************************************************************)
StatisticsReturned == call.op = "get_error_statistics" /\ ret.status = "returned"

\* The positions of the ledger that hold an incident of the given kind or tool.
OfKind(kind) == {i \in DOMAIN error_history : error_history[i].error_type = kind}

OfTool(tool) == {i \in DOMAIN error_history : error_history[i].tool_name = tool}

\* C11: in every state reached by handle_tool_failure calls made one after the
\* other, the ledger holds at most max_history_size incidents.
C11_LedgerWithinCapacity == Len(error_history) <= max_history_size

\* More incidents were appended than the ledger holds, and the ledger is full.
C11_Witness ==
  /\ Len(appended) > max_history_size
  /\ Len(error_history) = max_history_size

\* C12: after n appends to an empty ledger of capacity C the ledger holds the
\* last min(n, C) appended incidents, in the order of their appends.
C12_FifoEviction ==
  /\ Len(error_history) = Min(Len(appended), max_history_size)
  /\ \A i \in 1..Len(error_history) :
       error_history[i] = appended[Len(appended) - Len(error_history) + i]

\* C + 1 incidents were appended to a ledger of capacity C >= 2, the kept ones
\* differing from each other and from the dropped one.
C12_Witness ==
  /\ max_history_size >= 2
  /\ Len(appended) = max_history_size + 1
  /\ Len(error_history) = max_history_size
  /\ appended[1] # appended[2]
  /\ appended[2] # appended[3]

\* C14: get_error_statistics returns total, counts by kind, counts by tool,
\* recent count and recent list in every state of the ledger, the empty one
\* included.
C14_StatisticsHasFiveFields ==
  StatisticsReturned =>
    DOMAIN ret.value = { "total_errors", "error_counts_by_type", "error_counts_by_tool",
                         "recent_errors_count", "recent_errors" }

\* C15: the statistics are those of the ledger as it is now: total is its
\* length, the count of a kind or of a tool is the number of its incidents of
\* that kind or tool (none reported where there is none), evicted incidents
\* not counted.
C15_StatisticsOfCurrentLedger ==
  StatisticsReturned =>
    LET by_type == dict_get(ret.value, "error_counts_by_type", << >>)
        by_tool == dict_get(ret.value, "error_counts_by_tool", << >>)
    IN  /\ ret.value.total_errors = Len(error_history)
        /\ DOMAIN by_type \subseteq ErrorType
        /\ \A kind \in ErrorType : dict_get(by_type, kind, 0) = Cardinality(OfKind(kind))
        /\ DOMAIN by_tool \subseteq Tools
        /\ \A tool \in Tools : dict_get(by_tool, tool, 0) = Cardinality(OfTool(tool))

\* Statistics were read after an incident was evicted whose tool and kind the
\* ledger no longer holds, the ledger holding two incidents or more.
C15_Witness ==
  /\ StatisticsReturned
  /\ Len(error_history) >= 2
  /\ Len(appended) > Len(error_history)
  /\ OfTool(appended[1].tool_name) = {}
  /\ OfKind(appended[1].error_type) = {}

\* C13: concurrent handle_tool_failure calls do not interleave their
\* append-then-truncate, so that when all calls have finished the ledger holds
\* the min(total appended, capacity) most recently appended incidents.
C13_ConcurrentAppendsSerialized ==
  (\A t \in ThreadIds : threads[t].pc = "idle") =>
    /\ Len(error_history) = Min(Len(appended), max_history_size)
    /\ \A i \in 1..Len(error_history) :
         error_history[Len(error_history) + 1 - i] = appended[Len(appended) + 1 - i]

(***************************************************************************)
(* Parameter adjustment.                                                   *)
(***************************************************************************)
AdjustReturned == call.op = "auto_adjust_parameters" /\ ret.status = "returned"

\* The step in which auto_adjust_parameters returns.
AdjustStep == call.op = "auto_adjust_parameters" /\ ret = Pending /\ ret'.status = "returned"

\* The kinds that have a generic delta.
GenericKinds == {TIMEOUT, RATE_LIMITED, RESOURCE_EXHAUSTED}

\* The tool has a delta of its own for the kind.
HasOwnDelta(tool, kind) ==
  /\ tool \in DOMAIN initialize_parameter_adjustments
  /\ kind \in DOMAIN initialize_parameter_adjustments[tool]

\* C16: the result's keys are the original keys and the delta keys, a delta
\* key carries the delta value, every other key its original value, and the
\* dict passed in is as it was.
C16_MergeKeepsOriginal ==
  [][ AdjustStep =>
        LET original == call.original_params
            delta == adjustments_of(call.tool, call.error_type)
            result == ret'.value
        IN  /\ DOMAIN result = DOMAIN original \union DOMAIN delta
            /\ \A k \in DOMAIN delta : result[k] = delta[k]
            /\ \A k \in DOMAIN original \ DOMAIN delta : result[k] = original[k]
            /\ call'.original_params = original ]_vars

\* nmap on timeout with {'target': 'x'}: target kept, timing added.
C16_Witness ==
  /\ AdjustReturned
  /\ call.tool = "nmap"
  /\ call.error_type = TIMEOUT
  /\ call.original_params = [target |-> "x"]
  /\ ret.value = [target |-> "x", timing |-> "-T2", reduce_ports |-> TRUE]

\* C17: the tool's own delta for the kind is applied if there is one;
\* otherwise the generic delta of timeout, rate_limited and
\* resource_exhausted, also for a tool that is not in the table; for any
\* other kind the result is the original parameters.
C17_AdjustFallback ==
  AdjustReturned =>
    IF HasOwnDelta(call.tool, call.error_type)
      THEN ret.value = dict_update(call.original_params,
                         initialize_parameter_adjustments[call.tool][call.error_type])
    ELSE IF call.error_type \in GenericKinds
      THEN ret.value = dict_update(call.original_params,
                                   generic_adjustments(call.error_type))
    ELSE DOMAIN ret.value = DOMAIN call.original_params
         /\ \A k \in DOMAIN ret.value : ret.value[k] = call.original_params[k]

\* A tool that is not in the table got the generic delta of timeout.
C17_Witness ==
  /\ AdjustReturned
  /\ call.tool = "sqlmap"
  /\ call.error_type = TIMEOUT
  /\ call.original_params = [target |-> "x"]
  /\ ret.value = [target |-> "x", timeout |-> "60", threads |-> "5"]

\* C18: auto_adjust_parameters('gobuster', rate_limited, {'threads': '50'})
\* returns {'threads': '5', 'rate-limit': '10'}.
C18_GobusterRateLimited ==
  ( /\ AdjustReturned
    /\ call.tool = "gobuster"
    /\ call.error_type = RATE_LIMITED
    /\ call.original_params = [threads |-> "50"] )
  => ret.value = ("threads" :> "5") @@ ("rate-limit" :> "10")

(***************************************************************************)
(* Tool substitution.                                                      *)
(***************************************************************************)
AlternativeReturned == call.op = "get_alternative_tool" /\ ret.status = "returned"

\* The declared alternatives of the failed tool of the call.
Declared ==
  IF call.failed_tool \in DOMAIN initialize_tool_alternatives
    THEN initialize_tool_alternatives[call.failed_tool]
    ELSE << >>

\* The alternative is excluded by the flags of the call.
Excluded(alt) ==
  \/ /\ "require_no_privileges" \in DOMAIN call.context
     /\ call.context["require_no_privileges"]
     /\ alt \in {"nmap", "masscan"}
  \/ /\ "prefer_faster_tools" \in DOMAIN call.context
     /\ call.context["prefer_faster_tools"]
     /\ alt \in {"amass", "w3af"}

\* The positions of the declared list that are not excluded.
Allowed == {i \in DOMAIN Declared : ~Excluded(Declared[i])}

\* C19: the result is the first declared alternative that is not excluded; an
\* excluded one (the first declared) only when all are excluded; no tool
\* exactly when the failed tool has no declared alternatives.
C19_FirstAllowedAlternative ==
  AlternativeReturned =>
    /\ (ret.value = None) <=> (Declared = << >>)
    /\ Allowed # {} =>
         \E i \in Allowed : /\ ret.value = Declared[i]
                            /\ \A j \in Allowed : i <= j
    /\ (Declared # << >> /\ Allowed = {}) => ret.value = Declared[1]

\* A call whose flags exclude every declared alternative returned the first
\* declared one.
C19_Witness ==
  /\ AlternativeReturned
  /\ Declared # << >>
  /\ Allowed = {}
  /\ ret.value = Declared[1]

(***************************************************************************)
(* The lineage of a logical operation.                                     *)
(***************************************************************************)
\* C20: when handle_tool_failure is called again for the same tool and target
\* with a higher attempt_count, the incident it appends references the
\* earlier incident in its previous_errors.
C20_ReinvocationReferencesPrior ==
  [][ ( /\ error_history # << >>
        /\ call'.op = "handle_tool_failure"
        /\ Last(error_history').tool_name = Last(error_history).tool_name
        /\ Last(error_history').target = Last(error_history).target
        /\ Last(error_history').attempt_count > Last(error_history).attempt_count )
      => Last(error_history) \in Range(Last(error_history').previous_errors) ]_vars

(***************************************************************************)
(* Escalation.                                                             *)
(***************************************************************************)
EscalateReturned == call.op = "escalate_to_human" /\ ret.status = "returned"

\* The step in which escalate_to_human returns.
EscalateStep == call.op = "escalate_to_human" /\ ret = Pending /\ ret'.status = "returned"

\* The kinds with suggestions of their own.
SuggestionKinds == {PERMISSION_DENIED, TOOL_NOT_FOUND, NETWORK_UNREACHABLE, RATE_LIMITED}

\* C22: the record's recent_errors are the error messages of the last
\* min(5, n) of the context's n previous errors, in their order; never more
\* than 5.
C22_LastFivePriorMessages ==
  EscalateReturned =>
    LET previous == call.context.previous_errors
        n == Len(previous)
        recent == ret.value.context.recent_errors
    IN  /\ Len(recent) = Min(5, n)
        /\ Len(recent) <= 5
        /\ \A i \in 1..Len(recent) :
             recent[i] = previous[n - Len(recent) + i].error_message

\* A context with more than 5 previous errors was escalated: the record
\* starts at the sixth from the end.
C22_Witness ==
  /\ EscalateReturned
  /\ Len(call.context.previous_errors) = 7
  /\ ret.value.context.recent_errors =
       << "failure 3", "failure 4", "failure 5", "failure 6", "failure 7" >>

\* C23: the record carries the context's tool, target, kind, message, attempt
\* count, parameters and resource snapshot and the urgency passed (medium if
\* none); its suggestions are never empty, and are the kind's own for
\* permission_denied, tool_not_found, network_unreachable and rate_limited;
\* the context and the ledger are as before.
C23_EscalationRecord ==
  [][ EscalateStep =>
        LET context == call.context
            record == ret'.value
        IN  /\ record.tool = context.tool_name
            /\ record.target = context.target
            /\ record.error_type = context.error_type
            /\ record.error_message = context.error_message
            /\ record.attempt_count = context.attempt_count
            /\ record.context.parameters = context.parameters
            /\ record.context.system_resources = context.system_resources
            /\ record.urgency = (IF "urgency" \in DOMAIN call THEN call.urgency ELSE "medium")
            /\ record.suggested_actions # << >>
            /\ (context.error_type \in SuggestionKinds =>
                  Len(record.suggested_actions) = 3)
            /\ (context.error_type = PERMISSION_DENIED =>
                  record.suggested_actions[1] = "Run the command with sudo privileges")
            /\ (context.error_type = TOOL_NOT_FOUND =>
                  record.suggested_actions[1] =
                    "Install " \o context.tool_name \o " using package manager")
            /\ (context.error_type = NETWORK_UNREACHABLE =>
                  record.suggested_actions[1] = "Check network connectivity")
            /\ (context.error_type = RATE_LIMITED =>
                  record.suggested_actions[1] = "Wait before retrying")
            /\ call'.context = context
            /\ error_history' = error_history ]_vars

\* A failure of a kind without suggestions of its own was escalated with
\* urgency high, and a record with a suggestion returned.
C23_Witness ==
  /\ EscalateReturned
  /\ call.context.error_type = PARSING_ERROR
  /\ "urgency" \in DOMAIN call
  /\ ret.value.urgency = "high"
  /\ ret.value.suggested_actions = << "Review error details and logs" >>

\* C21: whenever handle_tool_failure returns a strategy whose action is
\* escalate_to_human, the escalation record of that failure is produced: the
\* call writes it out as escalate_to_human does.
C21_EscalationRecordProduced ==
  [][ ( /\ call'.op = "handle_tool_failure"
        /\ ret'.status = "returned"
        /\ ret'.value.action = ESCALATE_TO_HUMAN )
      => \E i \in DOMAIN logged' :
           /\ "escalation_data" \in DOMAIN logged'[i]
           /\ logged'[i].escalation_data.tool = call'.tool ]_vars

(***************************************************************************)
(* The catalog and the first attempt.                                      *)
(***************************************************************************)
\* C24: for every kind, handle_tool_failure with attempt_count 1 returns a
\* template of the kind's own catalog entry, and not the exhausted escalation.
C24_FirstAttemptFromOwnEntry ==
  (HandleReturned /\ Incident.attempt_count = 1) =>
    /\ \E i \in DOMAIN initialize_recovery_strategies[Incident.error_type] :
         ret.value = initialize_recovery_strategies[Incident.error_type][i]
    /\ ~IsExhaustedEscalation(ret.value, call.tool)

\* A first attempt of kind unknown returned the escalation of the unknown
\* entry, which is not the exhausted one.
C24_Witness ==
  /\ HandleReturned
  /\ Incident.attempt_count = 1
  /\ Incident.error_type = UNKNOWN
  /\ ret.value = initialize_recovery_strategies[UNKNOWN][2]

\* C25: whenever the handler has consulted the catalog, every kind has an entry with a strategy; the unknown entry has a retry
\* and an escalation; every template has max_attempts >= 1,
\* backoff_multiplier >= 1.0 (10 tenths), success_probability within [0, 1]
\* (0 to 10 tenths) and estimated_time >= 0.
C25_CatalogWellFormed ==
  HandleReturned =>
  /\ \A kind \in ErrorType :
       /\ kind \in DOMAIN recovery_strategies
       /\ Len(recovery_strategies[kind]) >= 1
       /\ \A i \in DOMAIN recovery_strategies[kind] :
            LET template == recovery_strategies[kind][i]
            IN  /\ template.action \in RecoveryAction
                /\ template.max_attempts >= 1
                /\ template.backoff_multiplier >= 10
                /\ template.success_probability \in 0..10
                /\ template.estimated_time >= 0
  /\ \E i \in DOMAIN recovery_strategies[UNKNOWN] :
       recovery_strategies[UNKNOWN][i].action \in
         {RETRY_WITH_BACKOFF, RETRY_WITH_REDUCED_SCOPE}
  /\ \E i \in DOMAIN recovery_strategies[UNKNOWN] :
       recovery_strategies[UNKNOWN][i].action = ESCALATE_TO_HUMAN

\* The unknown entry in use: its escalation at the first attempt of a failure
\* that no rule matches, its retry at the second.
C25_Witness ==
  /\ HandleReturned
  /\ Incident.error_type = UNKNOWN
  /\ Incident.attempt_count = 2
  /\ ret.value = recovery_strategies[UNKNOWN][1]
  /\ ret.value.action = RETRY_WITH_BACKOFF

\* C26: for a strategy with success_probability > 0 the adjusted probability
\* at attempt n + 1 is strictly below that at attempt n, and so is the score,
\* for every n below the attempt_count of the call.
C26_MonotonicDiscount ==
  SelectReturned =>
    \A i \in DOMAIN call.strategies, n \in 1..(call.context.attempt_count - 1) :
      call.strategies[i].success_probability > 0 =>
        /\ FGreater(adjusted_probability_of(call.strategies[i], n),
                    adjusted_probability_of(call.strategies[i], n + 1))
        /\ FGreater(score_of(call.strategies[i], n), score_of(call.strategies[i], n + 1))

\* A strategy was selected at a later attempt with a score below the one it
\* has at the first attempt.
C26_Witness ==
  /\ SelectReturned
  /\ call.context.attempt_count >= 3
  /\ ViablePositions # {}
  /\ FGreater(score_of(ret.value, 1), score_of(ret.value, call.context.attempt_count))

\* C27: gobuster, 'rate limit exceeded (429)', attempt_count 1: the failure is
\* classified rate_limited and the action returned is retry_with_backoff or
\* adjust_parameters.
C27_GobusterRateLimitEndToEnd ==
  ( /\ HandleReturned
    /\ call.tool = "gobuster"
    /\ call.error = Exc("Exception", "rate limit exceeded (429)")
    /\ Incident.attempt_count = 1 )
  => /\ Incident.error_type = RATE_LIMITED
     /\ ret.value.action \in {RETRY_WITH_BACKOFF, ADJUST_PARAMETERS}

\* That call was made, and returned retry_with_backoff.
C27_Witness ==
  /\ HandleReturned
  /\ call.tool = "gobuster"
  /\ call.error = Exc("Exception", "rate limit exceeded (429)")
  /\ Incident.attempt_count = 1
  /\ Incident.tool_name = "gobuster"
  /\ ret.value.action = RETRY_WITH_BACKOFF

(***************************************************************************)
(* The incident of a call, and the host.                                   *)
(***************************************************************************)
HostHandled == call.op = "handle_tool_failure" /\ "host" \in DOMAIN call

\* The marker _get_system_resources returns in place of the readings.
Unavailable == [error |-> "Unable to get system resources"]

\* C28: when the host's readings cannot be taken, handle_tool_failure still
\* returns a RecoveryStrategy and the incident it appended carries the marker
\* in place of the snapshot.
C28_SnapshotFailureTolerated ==
  (HostHandled /\ call.host.raises) =>
    /\ ret.status = "returned"
    /\ ret.value.action \in RecoveryAction
    /\ error_history # << >>
    /\ Incident.tool_name = call.tool
    /\ Incident.error_message = call.error.message
    /\ Incident.system_resources = Unavailable

\* A call on a failing host returned a retry, after a call on a working host
\* whose incident carries the readings.
C28_Witness ==
  /\ HostHandled
  /\ call.host = HostDown
  /\ ret.status = "returned"
  /\ ret.value.action = RETRY_WITH_BACKOFF
  /\ Len(error_history) >= 2
  /\ Incident.system_resources = Unavailable
  /\ "cpu_percent" \in DOMAIN error_history[Len(error_history) - 1].system_resources

\* C30: each handle_tool_failure call appends exactly one incident (the oldest
\* one leaves when the ledger is full), which carries the call's tool, target,
\* parameters and attempt_count and the kind classify_error gives the error;
\* so also when the call returns the exhausted escalation.
C30_OneIncidentPerCall ==
  [][ call'.op = "handle_tool_failure" =>
        /\ ret'.status = "returned"
        /\ error_history' # << >>
        /\ LET incident == Last(error_history')
               context == call'.context
           IN  /\ Len(error_history) < max_history_size =>
                    error_history' = Append(error_history, incident)
               /\ Len(error_history) >= max_history_size =>
                    error_history' = Append(Tail(error_history), incident)
               /\ incident.tool_name = call'.tool
               /\ incident.target =
                    IF "target" \in DOMAIN context THEN context.target ELSE "unknown"
               /\ incident.parameters =
                    IF "parameters" \in DOMAIN context THEN context.parameters ELSE << >>
               /\ incident.attempt_count =
                    IF "attempt_count" \in DOMAIN context THEN context.attempt_count ELSE 1
               /\ incident.error_message = call'.error.message
               /\ incident.error_type = classify_error(call'.error.message, call'.error.cls)
    ]_vars

\* A third call returned the exhausted escalation, and its incident is the
\* third of the ledger.
C30_Witness ==
  /\ HostHandled
  /\ ret.status = "returned"
  /\ IsExhaustedEscalation(ret.value, call.tool)
  /\ Len(error_history) = 3
  /\ Incident.tool_name = "gobuster"
  /\ Incident.parameters = [threads |-> "50"]
  /\ Incident.attempt_count = call.context.attempt_count
  /\ Incident.error_type = RATE_LIMITED

C31_TimeOnlyBreaksTies ==
  (HandleReturned /\ ~IsExhaustedEscalation(ret.value, call.tool)) =>
    \A i \in DOMAIN recovery_strategies[Incident.error_type] :
      LET other == recovery_strategies[Incident.error_type][i]
      IN  other.max_attempts >= Incident.attempt_count =>
            ~FGreater(adjusted_probability_of(other, Incident.attempt_count),
                      adjusted_probability_of(ret.value, Incident.attempt_count))

(***************************************************************************)
(* Statistics read while the ledger is written.                            *)
(***************************************************************************)
\* The sum of the counts of a dict of counts.
RECURSIVE SumOfCounts(_)
SumOfCounts(counts) ==
  IF DOMAIN counts = {} THEN 0
  ELSE LET key == CHOOSE k \in DOMAIN counts : TRUE
       IN  counts[key] + SumOfCounts([k \in DOMAIN counts \ {key} |-> counts[k]])

\* C32: every statistics result is of one snapshot of the ledger, also when a
\* handle_tool_failure call appends or truncates while get_error_statistics
\* runs: total is the sum of the counts by kind and the sum of the counts by
\* tool, and the recent count is at most total.
C32_StatisticsOfOneSnapshot ==
  StatisticsReturned =>
    /\ ret.value.total_errors =
         SumOfCounts(dict_get(ret.value, "error_counts_by_type", << >>))
    /\ ret.value.total_errors =
         SumOfCounts(dict_get(ret.value, "error_counts_by_tool", << >>))
    /\ dict_get(ret.value, "recent_errors_count", 0) <= ret.value.total_errors

(***************************************************************************)
(* The errors of the last hour.                                            *)
(***************************************************************************)
\* The incidents of the ledger less than one hour old at the given time, in
\* ledger order.
RecentIncidentsAt(clock) ==
  SelectSeq(error_history, LAMBDA error : clock - error.timestamp < 3600)

\* C33: the recent count of a statistics result is the number of incidents
\* less than one hour old at the call, that is at some time between its
\* beginning and its end, and the recent list holds the last
\* min(10, recent count) of them in ledger order.
C33_RecentCountAndList ==
  [][ ( /\ call'.op = "get_error_statistics"
        /\ call.op # "get_error_statistics" \/ now' = now
        /\ error_history # << >> ) =>
        \E clock \in { c \in ClockValues(now) : c <= now' } :
          LET recent == RecentIncidentsAt(clock)
              listed == ret'.value.recent_errors
              skipped_before == Len(recent) - Len(listed)
          IN  /\ ret'.value.recent_errors_count = Len(recent)
              /\ Len(listed) = Min(10, Len(recent))
              /\ \A j \in DOMAIN listed :
                   /\ listed[j].tool = recent[skipped_before + j].tool_name
                   /\ listed[j].error_type = recent[skipped_before + j].error_type
                   /\ listed[j].timestamp = isoformat(recent[skipped_before + j].timestamp)
    ]_vars

(***************************************************************************)
(* Retries of one operation.                                               *)
(***************************************************************************)
\* C34: when handle_tool_failure is called again for the same tool and target,
\* the caller passing a higher attempt_count than before or none at all, the
\* attempt_count of the incident appended is higher than that of the incident
\* of the call before.
C34_AttemptCountIncreases ==
  [][ ( /\ error_history # << >>
        /\ call.op = "handle_tool_failure"
        /\ call'.op = "handle_tool_failure"
        /\ Last(error_history').tool_name = Last(error_history).tool_name
        /\ Last(error_history').target = Last(error_history).target
        /\ \/ "attempt_count" \notin DOMAIN call'.context
           \/ /\ "attempt_count" \in DOMAIN call.context
              /\ call'.context.attempt_count > call.context.attempt_count )
      => Last(error_history').attempt_count > Last(error_history).attempt_count ]_vars

(***************************************************************************)
(* What the calls leave alone.                                             *)
(***************************************************************************)
\* C35: whatever calls of the six public methods have been made, the pattern
\* table, the recovery catalog, the tool-alternatives table and the
\* parameter-delta table are as the constructor left them.
C35_StaticTablesUnchanged ==
  /\ tables.error_patterns = initialize_error_patterns
  /\ tables.recovery_strategies = initialize_recovery_strategies
  /\ tables.tool_alternatives = initialize_tool_alternatives
  /\ tables.parameter_adjustments = initialize_parameter_adjustments

\* auto_adjust_parameters merged nmap's own timeout delta into the caller's
\* parameters, on a handler that has classified and recorded failures.
C35_Witness ==
  /\ AdjustReturned
  /\ call.tool = "nmap"
  /\ call.error_type = TIMEOUT
  /\ call.original_params = [threads |-> "50"]
  /\ ret.value = dict_update([threads |-> "50"], initialize_parameter_adjustments.nmap.timeout)
  /\ error_history # << >>
  /\ classified # {}

\* C36: a handle_tool_failure call leaves the incidents of the ledger as
\* they were, save the oldest ones it evicts, and adds its own at the end;
\* every other call leaves the ledger as it was.
C36_IncidentsNeverChanged ==
  [][ IF call'.op = "handle_tool_failure"
        THEN /\ error_history' # << >>
             /\ \E evicted \in 0..Len(error_history) :
                  SubSeq(error_history', 1, Len(error_history') - 1) =
                    SubSeq(error_history, evicted + 1, Len(error_history))
        ELSE error_history' = error_history
    ]_vars

\* The parameters of the older incident of a full ledger, which has evicted
\* one, were adjusted: the call returned other parameters.
C36_Witness ==
  /\ AdjustReturned
  /\ Len(appended) > Len(error_history)
  /\ Len(error_history) = 2
  /\ call.tool = error_history[1].tool_name
  /\ call.original_params = error_history[1].parameters
  /\ error_history[1].parameters = [threads |-> "50"]
  /\ ret.value # error_history[1].parameters
  /\ error_history[1] = appended[Len(appended) - 1]

(***************************************************************************)
(* The generic adjustment and the parameters it is merged into.            *)
(***************************************************************************)
\* The text is a decimal numeral, and the number it writes.
IsNumeral(text) ==
  /\ Len(text) >= 1
  /\ \A i \in 1..Len(text) : \E d \in 1..10 : CharAt(Digits, d) = CharAt(text, i)

RECURSIVE NumeralValue(_)
NumeralValue(text) ==
  IF Len(text) = 0 THEN 0
  ELSE 10 * NumeralValue(SubSeq(text, 1, Len(text) - 1))
       + (CHOOSE d \in 1..10 : CharAt(Digits, d) = CharAt(text, Len(text))) - 1

\* C37: for a tool without a delta of its own, a kind with a generic delta and
\* original parameters with a numeric threads value, the threads value returned
\* is not larger than the original one, and for timeout a numeric timeout
\* value of the original parameters is not lowered.
C37_GenericLowersConcurrency ==
  ( /\ AdjustReturned
    /\ ~HasOwnDelta(call.tool, call.error_type)
    /\ call.error_type \in GenericKinds
    /\ "threads" \in DOMAIN call.original_params
    /\ IsNumeral(call.original_params.threads) )
  => /\ "threads" \in DOMAIN ret.value
     /\ IsNumeral(ret.value.threads)
     /\ NumeralValue(ret.value.threads) <= NumeralValue(call.original_params.threads)
     /\ ( /\ call.error_type = TIMEOUT
          /\ "timeout" \in DOMAIN call.original_params
          /\ IsNumeral(call.original_params.timeout) )
        => /\ IsNumeral(ret.value.timeout)
           /\ NumeralValue(ret.value.timeout) >= NumeralValue(call.original_params.timeout)

\* C38: adjusting the parameters that auto_adjust_parameters returned, for
\* the same tool and kind, returns them as they are.
C38_AdjustIdempotent ==
  AdjustReturned =>
    auto_adjust_parameters(call.tool, call.error_type, ret.value).adjusted_params = ret.value

\* gobuster's own timeout delta replaced the threads of the caller and added a
\* timeout.
C38_Witness ==
  /\ AdjustReturned
  /\ call.tool = "gobuster"
  /\ call.error_type = TIMEOUT
  /\ call.original_params = [threads |-> "50"]
  /\ ret.value = [threads |-> "10", timeout |-> "30s"]

(***************************************************************************)
(* The tool that get_alternative_tool names.                               *)
(***************************************************************************)
\* C39: for every tool and every combination of the flags, a tool returned by
\* get_alternative_tool is one of the declared alternatives of the failed tool
\* and is not the failed tool.
C39_AlternativeDeclaredAndOther ==
  (AlternativeReturned /\ ret.value # None) =>
    /\ \E i \in DOMAIN Declared : ret.value = Declared[i]
    /\ ret.value # call.failed_tool

\* The first declared alternative needs privileges and the call forbids them:
\* a later declared alternative was returned.
C39_Witness ==
  /\ AlternativeReturned
  /\ context_flag(call.context, "require_no_privileges")
  /\ Declared # << >>
  /\ Declared[1] \in {"nmap", "masscan"}
  /\ ret.value # None
  /\ ret.value # Declared[1]
  /\ \E i \in DOMAIN Declared : i > 1 /\ ret.value = Declared[i]

====
